---- MODULE Spec2Model ----
(***************************************************************************)
(* Model of the google-drive-downloader retrieval pipeline                 *)
(* (GoogleDriveDownloader in src/src/index.ts, the validators in           *)
(* src/unnamed/part_000, the tables in src/src/types/index.ts).            *)
(*                                                                         *)
(* JavaScript strings are sequences of one-character strings, so that      *)
(* includes(), split(), replace() and the regular expressions are computed *)
(* character by character.  Bytes of a Buffer are integers 0..255.  An     *)
(* optional value (undefined or null in the source) is None, a present one *)
(* is Some(v).                                                             *)
(***************************************************************************)
EXTENDS Integers, Sequences, FiniteSets, TLC

VARIABLES
  hUrls,    \* harness of getDownloadUrls: its arguments and its return value
  hRetry,   \* harness of retryWithBackoff: its arguments, locals and outcome
  hExtract, \* harness of extractFileId: its argument and its outcome
  hSave,    \* saveToFile: its argument, the two streams and its promise
  hPair,    \* two download calls on one instance, and the instance
  call,     \* the public call: entry point, url and options given by the caller
  pc,       \* where the download call is suspended
  loc,      \* locals of download, getFileInfo and downloadLargeFile
  requests, \* every HTTP request issued by the call, in order
  drain,    \* streamToBuffer: its closure, the body stream, the timer, its promise
  result    \* the promise returned by download

dvars == <<call, pc, loc, requests, drain, result>>
xvars == <<hExtract, hSave, hPair>>
vars == <<hUrls, hRetry, hExtract, hSave, hPair, call, pc, loc, requests, drain, result>>

(***************************************************************************)
(* Bounds of the model and constants of the program                        *)
(***************************************************************************)
\* The wrapped function of the retry harness fails at most this many times.
MaxFails == 3
\* Largest maxRetries argument the retry harness draws.
MaxRetriesArg == 3
\* CONFIG.MAX_BUFFER_SIZE, scaled from 100 MB to a few bytes.
MaxBufferSize == 5
\* CONFIG.DEFAULT_TIMEOUT, in ms (README: "Timeout: 30 seconds").
DEFAULT_TIMEOUT == 30000
\* CONFIG.DEFAULT_RETRY_DELAY, in ms (README: "Retry delay: 1 second").
DEFAULT_RETRY_DELAY == 1000
\* CONFIG.LARGE_FILE_TIMEOUT, in ms (README: "Large file timeout: 5 minutes").
LARGE_FILE_TIMEOUT == 300000
\* CONFIG.DEFAULT_MAX_RETRIES (README: "Max retries: 3").
DEFAULT_MAX_RETRIES == 3

(***************************************************************************)
(* Optional values and string primitives                                   *)
(***************************************************************************)
None == << >>
Some(v) == <<v>>
IsSome(o) == o # None
Get(o) == o[1]

\* The value of a harness that is not running.
HUrlsIdle == [pc |-> "idle", fileId |-> << >>, mimeType |-> None,
              exportFormat |-> << >>, urls |-> << >>]
HRetryIdle == [pc |-> "idle", maxRetries |-> 0, baseDelay |-> 0, fails |-> 0,
               attempt |-> 0, calls |-> 0, lastError |-> None, delays |-> << >>,
               value |-> None, thrown |-> None]

HExtractIdle == [pc |-> "idle"]
HSaveIdle == [pc |-> "idle"]
HPairIdle == [pc |-> "idle"]
ExtraIdle == hExtract = HExtractIdle /\ hSave = HSaveIdle /\ hPair = HPairIdle

CallIdle == [entry |-> "none", url |-> [isString |-> FALSE, chars |-> << >>],
             options |-> [asBuffer |-> None, exportFormat |-> None,
                          maxRetries |-> None, timeout |-> None]]
LocInit == [asBuffer |-> TRUE, exportFormat |-> << >>, maxRetries |-> 0, timeout |-> 0,
            fileId |-> None, fileInfo |-> None, downloadUrls |-> << >>, i |-> 0,
            response |-> None, lastError |-> None, base |-> 0, adj |-> None,
            large |-> FALSE, confirmData |-> None, confirmToken |-> None,
            largeResponse |-> None, metaPath |-> "none", netThrew |-> FALSE,
            escaped |-> None, attempt |-> 0, delays |-> << >>]
DrainIdle == [active |-> FALSE, chunks |-> << >>, totalSize |-> 0, stream |-> "none",
              timer |-> "none", promise |-> "none", buffer |-> None, reason |-> None]
ResultPending == [state |-> "pending", value |-> None, reason |-> None]
DownloadIdle ==
  /\ call = CallIdle /\ pc = "idle" /\ loc = LocInit /\ requests = << >>
  /\ drain = DrainIdle /\ result = ResultPending

\* Call by value: F at the value of e, with e evaluated once.
ByValue(e, F(_)) == CHOOSE r \in { F(x) : x \in {e} } : TRUE

\* JavaScript truthiness of an optional string: undefined, null and '' are falsy.
Truthy(o) == IsSome(o) /\ Get(o) # << >>

\* String.prototype.includes
Includes(s, sub) ==
  \E i \in 0..(Len(s) - Len(sub)) : SubSeq(s, i + 1, i + Len(sub)) = sub

\* mimeType?.includes(sub): undefined on an absent value, which is falsy.
OptIncludes(o, sub) == IsSome(o) /\ Includes(Get(o), sub)

(***************************************************************************)
(* String constants of the source                                          *)
(***************************************************************************)
\* "document"
StrDocument == <<"d","o","c","u","m","e","n","t">>
\* "spreadsheet"
StrSpreadsheet == <<"s","p","r","e","a","d","s","h","e","e","t">>
\* "presentation"
StrPresentation == <<"p","r","e","s","e","n","t","a","t","i","o","n">>
\* "original"
StrOriginal == <<"o","r","i","g","i","n","a","l">>
\* "pdf"
StrPdf == <<"p","d","f">>
\* "docx"
StrDocx == <<"d","o","c","x">>
\* "xlsx"
StrXlsx == <<"x","l","s","x">>
\* "pptx"
StrPptx == <<"p","p","t","x">>
\* "text/html"
StrTextHtml == <<"t","e","x","t","/","h","t","m","l">>
\* "application/octet-stream"
OctetStream == <<"a","p","p","l","i","c","a","t","i","o","n","/","o","c","t","e","t","-","s","t","r","e","a","m">>
\* "application/pdf"
MimePdf == <<"a","p","p","l","i","c","a","t","i","o","n","/","p","d","f">>
\* "application/vnd.openxmlformats-officedocument.wordprocessingml.document"
MimeDocx == <<"a","p","p","l","i","c","a","t","i","o","n","/","v","n","d",".","o","p","e","n","x","m","l","f","o","r","m","a","t","s","-","o","f","f","i","c","e","d","o","c","u","m","e","n","t",".","w","o","r","d","p","r","o","c","e","s","s","i","n","g","m","l",".","d","o","c","u","m","e","n","t">>
\* "application/vnd.openxmlformats-officedocument.spreadsheetml.sheet"
MimeXlsx == <<"a","p","p","l","i","c","a","t","i","o","n","/","v","n","d",".","o","p","e","n","x","m","l","f","o","r","m","a","t","s","-","o","f","f","i","c","e","d","o","c","u","m","e","n","t",".","s","p","r","e","a","d","s","h","e","e","t","m","l",".","s","h","e","e","t">>
\* "application/vnd.openxmlformats-officedocument.presentationml.presentation"
MimePptx == <<"a","p","p","l","i","c","a","t","i","o","n","/","v","n","d",".","o","p","e","n","x","m","l","f","o","r","m","a","t","s","-","o","f","f","i","c","e","d","o","c","u","m","e","n","t",".","p","r","e","s","e","n","t","a","t","i","o","n","m","l",".","p","r","e","s","e","n","t","a","t","i","o","n">>
\* "application/zip"
MimeZip == <<"a","p","p","l","i","c","a","t","i","o","n","/","z","i","p">>
\* "image/jpeg"
MimeJpeg == <<"i","m","a","g","e","/","j","p","e","g">>
\* "image/png"
MimePng == <<"i","m","a","g","e","/","p","n","g">>
\* "image/gif"
MimeGif == <<"i","m","a","g","e","/","g","i","f">>
\* "image/webp"
MimeWebp == <<"i","m","a","g","e","/","w","e","b","p">>
\* "text/plain"
MimeTextPlain == <<"t","e","x","t","/","p","l","a","i","n">>
\* "application/vnd.google-apps.document"
MimeGDocument == <<"a","p","p","l","i","c","a","t","i","o","n","/","v","n","d",".","g","o","o","g","l","e","-","a","p","p","s",".","d","o","c","u","m","e","n","t">>
\* "application/vnd.google-apps.spreadsheet"
MimeGSpreadsheet == <<"a","p","p","l","i","c","a","t","i","o","n","/","v","n","d",".","g","o","o","g","l","e","-","a","p","p","s",".","s","p","r","e","a","d","s","h","e","e","t">>
\* "application/vnd.google-apps.presentation"
MimeGPresentation == <<"a","p","p","l","i","c","a","t","i","o","n","/","v","n","d",".","g","o","o","g","l","e","-","a","p","p","s",".","p","r","e","s","e","n","t","a","t","i","o","n">>
\* "application/vnd.google-apps.form"
MimeGForm == <<"a","p","p","l","i","c","a","t","i","o","n","/","v","n","d",".","g","o","o","g","l","e","-","a","p","p","s",".","f","o","r","m">>
\* "application/vnd.google-apps.drawing"
MimeGDrawing == <<"a","p","p","l","i","c","a","t","i","o","n","/","v","n","d",".","g","o","o","g","l","e","-","a","p","p","s",".","d","r","a","w","i","n","g">>

\* src/src/index.ts: googleDocMimeTypes
googleDocMimeTypes ==
  { MimeGDocument, MimeGSpreadsheet, MimeGPresentation, MimeGForm, MimeGDrawing }

\* src/types: mimeTypeMap, extension -> media type, as <<key, value>> pairs of
\* character sequences, in the order of the source table.
mimeTypeMap ==
  { <<<<"p","d","f">>, <<"a","p","p","l","i","c","a","t","i","o","n","/","p","d","f">>>>,   \* pdf: application/pdf
    <<<<"d","o","c">>, <<"a","p","p","l","i","c","a","t","i","o","n","/","m","s","w","o","r","d">>>>,   \* doc: application/msword
    <<<<"d","o","c","x">>, <<"a","p","p","l","i","c","a","t","i","o","n","/","v","n","d",".","o","p","e","n","x","m","l","f","o","r","m","a","t","s","-","o","f","f","i","c","e","d","o","c","u","m","e","n","t",".","w","o","r","d","p","r","o","c","e","s","s","i","n","g","m","l",".","d","o","c","u","m","e","n","t">>>>,   \* docx: application/vnd.openxmlformats-officedocument.wordprocessingml.document
    <<<<"x","l","s">>, <<"a","p","p","l","i","c","a","t","i","o","n","/","v","n","d",".","m","s","-","e","x","c","e","l">>>>,   \* xls: application/vnd.ms-excel
    <<<<"x","l","s","x">>, <<"a","p","p","l","i","c","a","t","i","o","n","/","v","n","d",".","o","p","e","n","x","m","l","f","o","r","m","a","t","s","-","o","f","f","i","c","e","d","o","c","u","m","e","n","t",".","s","p","r","e","a","d","s","h","e","e","t","m","l",".","s","h","e","e","t">>>>,   \* xlsx: application/vnd.openxmlformats-officedocument.spreadsheetml.sheet
    <<<<"p","p","t">>, <<"a","p","p","l","i","c","a","t","i","o","n","/","v","n","d",".","m","s","-","p","o","w","e","r","p","o","i","n","t">>>>,   \* ppt: application/vnd.ms-powerpoint
    <<<<"p","p","t","x">>, <<"a","p","p","l","i","c","a","t","i","o","n","/","v","n","d",".","o","p","e","n","x","m","l","f","o","r","m","a","t","s","-","o","f","f","i","c","e","d","o","c","u","m","e","n","t",".","p","r","e","s","e","n","t","a","t","i","o","n","m","l",".","p","r","e","s","e","n","t","a","t","i","o","n">>>>,   \* pptx: application/vnd.openxmlformats-officedocument.presentationml.presentation
    <<<<"t","x","t">>, <<"t","e","x","t","/","p","l","a","i","n">>>>,   \* txt: text/plain
    <<<<"c","s","v">>, <<"t","e","x","t","/","c","s","v">>>>,   \* csv: text/csv
    <<<<"r","t","f">>, <<"a","p","p","l","i","c","a","t","i","o","n","/","r","t","f">>>>,   \* rtf: application/rtf
    <<<<"o","d","t">>, <<"a","p","p","l","i","c","a","t","i","o","n","/","v","n","d",".","o","a","s","i","s",".","o","p","e","n","d","o","c","u","m","e","n","t",".","t","e","x","t">>>>,   \* odt: application/vnd.oasis.opendocument.text
    <<<<"o","d","s">>, <<"a","p","p","l","i","c","a","t","i","o","n","/","v","n","d",".","o","a","s","i","s",".","o","p","e","n","d","o","c","u","m","e","n","t",".","s","p","r","e","a","d","s","h","e","e","t">>>>,   \* ods: application/vnd.oasis.opendocument.spreadsheet
    <<<<"o","d","p">>, <<"a","p","p","l","i","c","a","t","i","o","n","/","v","n","d",".","o","a","s","i","s",".","o","p","e","n","d","o","c","u","m","e","n","t",".","p","r","e","s","e","n","t","a","t","i","o","n">>>>,   \* odp: application/vnd.oasis.opendocument.presentation
    <<<<"j","p","g">>, <<"i","m","a","g","e","/","j","p","e","g">>>>,   \* jpg: image/jpeg
    <<<<"j","p","e","g">>, <<"i","m","a","g","e","/","j","p","e","g">>>>,   \* jpeg: image/jpeg
    <<<<"p","n","g">>, <<"i","m","a","g","e","/","p","n","g">>>>,   \* png: image/png
    <<<<"g","i","f">>, <<"i","m","a","g","e","/","g","i","f">>>>,   \* gif: image/gif
    <<<<"b","m","p">>, <<"i","m","a","g","e","/","b","m","p">>>>,   \* bmp: image/bmp
    <<<<"w","e","b","p">>, <<"i","m","a","g","e","/","w","e","b","p">>>>,   \* webp: image/webp
    <<<<"s","v","g">>, <<"i","m","a","g","e","/","s","v","g","+","x","m","l">>>>,   \* svg: image/svg+xml
    <<<<"m","p","4">>, <<"v","i","d","e","o","/","m","p","4">>>>,   \* mp4: video/mp4
    <<<<"a","v","i">>, <<"v","i","d","e","o","/","x","-","m","s","v","i","d","e","o">>>>,   \* avi: video/x-msvideo
    <<<<"m","o","v">>, <<"v","i","d","e","o","/","q","u","i","c","k","t","i","m","e">>>>,   \* mov: video/quicktime
    <<<<"w","m","v">>, <<"v","i","d","e","o","/","x","-","m","s","-","w","m","v">>>>,   \* wmv: video/x-ms-wmv
    <<<<"m","p","3">>, <<"a","u","d","i","o","/","m","p","e","g">>>>,   \* mp3: audio/mpeg
    <<<<"w","a","v">>, <<"a","u","d","i","o","/","w","a","v">>>>,   \* wav: audio/wav
    <<<<"z","i","p">>, <<"a","p","p","l","i","c","a","t","i","o","n","/","z","i","p">>>>,   \* zip: application/zip
    <<<<"r","a","r">>, <<"a","p","p","l","i","c","a","t","i","o","n","/","x","-","r","a","r","-","c","o","m","p","r","e","s","s","e","d">>>>,   \* rar: application/x-rar-compressed
    <<<<"7","z">>, <<"a","p","p","l","i","c","a","t","i","o","n","/","x","-","7","z","-","c","o","m","p","r","e","s","s","e","d">>>>,   \* 7z: application/x-7z-compressed
    <<<<"j","s","o","n">>, <<"a","p","p","l","i","c","a","t","i","o","n","/","j","s","o","n">>>>,   \* json: application/json
    <<<<"x","m","l">>, <<"a","p","p","l","i","c","a","t","i","o","n","/","x","m","l">>>>,   \* xml: application/xml
    <<<<"h","t","m","l">>, <<"t","e","x","t","/","h","t","m","l">>>>,   \* html: text/html
    <<<<"c","s","s">>, <<"t","e","x","t","/","c","s","s">>>>,   \* css: text/css
    <<<<"j","s">>, <<"a","p","p","l","i","c","a","t","i","o","n","/","j","a","v","a","s","c","r","i","p","t">>>> } \* js: application/javascript

(***************************************************************************)
(* Characters, and the regular expressions of the source                   *)
(***************************************************************************)
UpperCase == <<"A","B","C","D","E","F","G","H","I","J","K","L","M","N","O","P","Q","R","S","T","U","V","W","X","Y","Z">>
LowerCase == <<"a","b","c","d","e","f","g","h","i","j","k","l","m","n","o","p","q","r","s","t","u","v","w","x","y","z">>
Digits == <<"0","1","2","3","4","5","6","7","8","9">>

Range(seq) == { seq[i] : i \in 1..Len(seq) }

\* toLowerCase of one character, and of a string (ASCII letters).
LowerChar(c) ==
  IF c \in Range(UpperCase)
    THEN LowerCase[CHOOSE i \in 1..26 : UpperCase[i] = c]
    ELSE c
ToLowerCase(s) == [i \in 1..Len(s) |-> LowerChar(s[i])]

\* Character classes of the source's regular expressions.
InClass(c, cls) ==
  CASE cls = "id"       -> c \in Range(UpperCase) \cup Range(LowerCase) \cup Range(Digits) \cup {"-", "_"}
    [] cls = "space"    -> c \in {" ", "\t", "\n", "\r"}
    [] cls = "notLt"    -> c # "<"
    [] cls = "notQuote" -> c # "\""
    [] cls = "notDot"   -> c # "."
    [] cls = "token"    -> c \notin {"&", "\"", "'"}

\* Pattern items: a literal (case-insensitive under the i flag), a greedy run
\* of a character class (min 1 for +, 0 for *), and the anchor $.
Lit(chars) == [t |-> "lit", s |-> chars, ci |-> FALSE, c |-> "", min |-> 0]
LitI(chars) == [t |-> "lit", s |-> chars, ci |-> TRUE, c |-> "", min |-> 0]
Plus(cls) == [t |-> "run", s |-> << >>, ci |-> FALSE, c |-> cls, min |-> 1]
Star(cls) == [t |-> "run", s |-> << >>, ci |-> FALSE, c |-> cls, min |-> 0]
AtEnd == [t |-> "end", s |-> << >>, ci |-> FALSE, c |-> "", min |-> 0]

RECURSIVE RunLen(_, _, _)
\* Length of the longest run of class cls in s from position pos.
RunLen(s, pos, cls) ==
  IF pos <= Len(s) /\ InClass(s[pos], cls) THEN 1 + RunLen(s, pos + 1, cls) ELSE 0

RECURSIVE MatchAt(_, _, _, _)
RECURSIVE TryRun(_, _, _, _, _)
\* Backtracking match of pat[k..] against s at pos: None, or Some(<<end, runs>>)
\* with the position after the match and the text of each run, in order.
MatchAt(pat, k, s, pos) ==
  IF k > Len(pat) THEN Some(<<pos, << >> >>)
  ELSE LET it == pat[k] IN
    IF it.t = "lit" THEN
      LET e == pos + Len(it.s) - 1 IN
      IF e <= Len(s) /\ (IF it.ci THEN ToLowerCase(SubSeq(s, pos, e)) = ToLowerCase(it.s)
                                   ELSE SubSeq(s, pos, e) = it.s)
        THEN MatchAt(pat, k + 1, s, e + 1)
        ELSE None
    ELSE IF it.t = "end" THEN
      IF pos = Len(s) + 1 THEN MatchAt(pat, k + 1, s, pos) ELSE None
    ELSE TryRun(pat, k, s, pos, RunLen(s, pos, it.c))

\* Greedy: the longest run first, then shorter ones.
TryRun(pat, k, s, pos, n) ==
  IF n < pat[k].min THEN None
  ELSE LET r == MatchAt(pat, k + 1, s, pos + n) IN
    IF r # None
      THEN Some(<< Get(r)[1], << SubSeq(s, pos, pos + n - 1) >> \o Get(r)[2] >>)
      ELSE TryRun(pat, k, s, pos, n - 1)

\* String.prototype.match without the g flag: the leftmost match, as
\* Some([index, end, runs]), or None (null).
RegexMatch(s, pat) ==
  LET starts == { i \in 1..(Len(s) + 1) : MatchAt(pat, 1, s, i) # None } IN
  IF starts = {} THEN None
  ELSE ByValue(CHOOSE i \in starts : \A j \in starts : i <= j, LAMBDA i :
         ByValue(Get(MatchAt(pat, 1, s, i)), LAMBDA r :
           Some([index |-> i, end |-> r[1], runs |-> r[2]])))

RECURSIVE TrimStart(_)
TrimStart(s) ==
  IF s # << >> /\ InClass(Head(s), "space") THEN TrimStart(Tail(s)) ELSE s
RECURSIVE TrimEnd(_)
TrimEnd(s) ==
  IF s # << >> /\ InClass(s[Len(s)], "space") THEN TrimEnd(SubSeq(s, 1, Len(s) - 1)) ELSE s
\* String.prototype.trim
Trim(s) == TrimEnd(TrimStart(s))

(***************************************************************************)
(* Validators (src/unnamed/part_000)                                       *)
(***************************************************************************)
\* fileIdPatterns, in order; group 1 is the run of identifier characters.
fileIdPatterns ==
  << << Lit(<<"/","f","i","l","e","/","d","/">>), Plus("id") >>,
     << Lit(<<"i","d","=">>), Plus("id") >>,
     << Lit(<<"/","d","/">>), Plus("id"), Lit(<<"/","v","i","e","w">>) >>,
     << Lit(<<"/","d","/">>), Plus("id"), Lit(<<"/","e","d","i","t">>) >>,
     << Lit(<<"/","d","o","c","u","m","e","n","t","/","d","/">>), Plus("id") >>,
     << Lit(<<"/","s","p","r","e","a","d","s","h","e","e","t","s","/","d","/">>), Plus("id") >>,
     << Lit(<<"/","p","r","e","s","e","n","t","a","t","i","o","n","/","d","/">>), Plus("id") >>,
     << Lit(<<"/","f","o","r","m","s","/","d","/">>), Plus("id") >>,
     << Lit(<<"/","d","r","a","w","i","n","g","s","/","d","/">>), Plus("id") >> >>

\* Error messages are sequences of text parts.
ErrInvalidUrl == << "Invalid URL provided" >>
ErrIdNotFound == << "File ID not found in URL. Please verify it is a valid Google Drive URL" >>

\* A url argument is [isString, chars]; a non-string has no characters.
\* The outcome of a function that may throw is [threw, value, error].
Return(v) == [threw |-> FALSE, value |-> Some(v), error |-> None]
Throw(e) == [threw |-> TRUE, value |-> None, error |-> Some(e)]

RECURSIVE FirstIdMatch(_, _)
\* for (const pattern of fileIdPatterns): the first pattern that matches.
FirstIdMatch(cleanUrl, k) ==
  IF k > Len(fileIdPatterns) THEN Throw(ErrIdNotFound)
  ELSE LET m == RegexMatch(cleanUrl, fileIdPatterns[k]) IN
    IF m # None /\ Get(m).runs[1] # << >>
      THEN Return(Get(m).runs[1])
      ELSE FirstIdMatch(cleanUrl, k + 1)

extractFileId(url) ==
  IF ~url.isString \/ url.chars = << >> THEN Throw(ErrInvalidUrl)
  ELSE FirstIdMatch(Trim(url.chars), 1)

\* fileName.split('.').pop(): the text after the last '.', the whole name
\* when it has none.
RECURSIVE LastSegment(_)
LastSegment(s) ==
  IF \E i \in 1..Len(s) : s[i] = "."
    THEN LastSegment(Tail(s))
    ELSE s

\* detectMimeTypeFromExtension: Some(media type) or None (null).
detectMimeTypeFromExtension(fileName) ==
  ByValue(fileName, LAMBDA name :
    ByValue(ToLowerCase(LastSegment(name)), LAMBDA extension :
      IF extension # << >> /\ \E p \in mimeTypeMap : p[1] = extension
        THEN Some((CHOOSE p \in mimeTypeMap : p[1] = extension)[2])
        ELSE None))

(***************************************************************************)
(* Metadata resolver: the values built by getFileInfo and                  *)
(* getFileInfoFromPage                                                     *)
(***************************************************************************)
\* "Google Drive"
StrGoogleDrive == <<"G","o","o","g","l","e"," ","D","r","i","v","e">>

ErrTypeError == << "TypeError: cannot read properties of undefined" >>

\* String.prototype.replace(regex, ''): the leftmost match removed.
RegexRemove(s, pat) ==
  LET m == RegexMatch(s, pat) IN
  IF m = None THEN s
  ELSE SubSeq(s, 1, Get(m).index - 1) \o SubSeq(s, Get(m).end, Len(s))

RECURSIVE DigitsValue(_, _)
\* Value of the longest prefix of decimal digits of s, after acc.
DigitsValue(s, acc) ==
  IF s # << >> /\ Head(s) \in Range(Digits)
    THEN DigitsValue(Tail(s), 10 * acc + ((CHOOSE i \in 1..10 : Digits[i] = Head(s)) - 1))
    ELSE acc

\* parseInt(s, 10): Some(n), or None for NaN.
ParseInt(s) ==
  LET t == TrimStart(s)
      neg == t # << >> /\ Head(t) = "-"
      u == IF t # << >> /\ Head(t) \in {"-", "+"} THEN Tail(t) ELSE t
  IN IF u # << >> /\ Head(u) \in Range(Digits)
       THEN Some(IF neg THEN 0 - DigitsValue(u, 0) ELSE DigitsValue(u, 0))
       ELSE None

\* `file_${fileId}`
DefaultFileName(fileId) == <<"f","i","l","e","_">> \o fileId

\* The catch block of getFileInfoFromPage, with the id dropped from the name.
DefaultFileInfoNoId(fileId) ==
  [name |-> Some(<<"f","i","l","e","_">>), mimeType |-> None, size |-> None]

\* The catch block of getFileInfoFromPage.
DefaultFileInfo(fileId) ==
  [name |-> Some(DefaultFileName(fileId)), mimeType |-> None, size |-> None]

\* The return statement of getFileInfo's try block, from response.data.
\* data is [name, mimeType, size], each optional (size as text).
FileInfoFromApi(data) ==
  [name |-> data.name,
   mimeType |-> data.mimeType,
   size |-> IF Truthy(data.size) THEN ParseInt(Get(data.size)) ELSE None]

TitlePattern == << LitI(<<"<","t","i","t","l","e",">">>), Plus("notLt"), LitI(<<"<","/","t","i","t","l","e",">">>) >>
SuffixPattern ==
  << Star("space"), Lit(<<"-">>), Star("space"), LitI(StrGoogleDrive), Star("space"), AtEnd >>
OgTitlePattern ==
  << LitI(<<"p","r","o","p","e","r","t","y","=","\"","o","g",":","t","i","t","l","e","\"">>), Plus("space"),
     LitI(<<"c","o","n","t","e","n","t","=","\"">>), Plus("notQuote"), Lit(<<"\"">>) >>

\* The name after the <title> step.
NameFromTitle(html, fileName) ==
  LET titleMatch == RegexMatch(html, TitlePattern) IN
  IF titleMatch = None THEN fileName
  ELSE LET title == RegexRemove(Trim(Get(titleMatch).runs[1]), SuffixPattern) IN
       IF title # << >> /\ title # StrGoogleDrive THEN title ELSE fileName

\* The name after the og:title step.
NameFromOgTitle(html, fileName) ==
  LET ogTitleMatch == RegexMatch(html, OgTitlePattern) IN
  IF ogTitleMatch # None /\ Get(ogTitleMatch).runs[2] # StrGoogleDrive
    THEN Trim(Get(ogTitleMatch).runs[2])
    ELSE fileName

\* The try block of getFileInfoFromPage, for a response whose data is a string.
FileInfoFromPage(html, fileId) ==
  LET fileName == NameFromOgTitle(html, NameFromTitle(html, DefaultFileName(fileId))) IN
  [name |-> Some(fileName), mimeType |-> detectMimeTypeFromExtension(fileName), size |-> None]

\* The try block of getFileInfoFromPage on the outcome o of its request: the
\* request raises, response.data.match raises on a body that is not a string,
\* or the name is scraped and returned.
PageTry(o, fileId) ==
  IF o.kind = "throw" THEN Throw(<< "page request failed" >>)
  ELSE IF o.kind = "nonString" THEN Throw(ErrTypeError)
  ELSE Return(FileInfoFromPage(o.html, fileId))

\* A catch block that lets the error escape to the caller.
PageCatchRethrow(tried, fileId) == tried

\* The catch block of getFileInfoFromPage: every error becomes the default.
PageCatch(tried, fileId) ==
  IF tried.threw THEN Return(DefaultFileInfo(fileId)) ELSE tried

(***************************************************************************)
(* Format classifier: detectMimeTypeFromBuffer (bytes are 0..255)          *)
(***************************************************************************)
\* buffer.slice(a, b), 0-based and end-exclusive as in the source.
Slice(buffer, a, b) ==
  LET e == IF b < Len(buffer) THEN b ELSE Len(buffer) IN
  IF a >= e THEN << >> ELSE SubSeq(buffer, a + 1, e)

\* firstBytes[i] of the source (0-based); -1 stands for undefined.
ByteAt(buffer, i) == IF i < Len(buffer) THEN buffer[i + 1] ELSE -1

BytesPDF == <<37, 80, 68, 70>>            \* "%PDF"
BytesGIF == <<71, 73, 70>>                \* "GIF"
BytesRIFF == <<82, 73, 70, 70>>           \* "RIFF"
BytesWEBP == <<87, 69, 66, 80>>           \* "WEBP"
BytesWord == <<119, 111, 114, 100, 47>>   \* "word/"
BytesXl == <<120, 108, 47>>               \* "xl/"
BytesPpt == <<112, 112, 116, 47>>         \* "ppt/"

detectMimeTypeFromBuffer(buffer) ==
  IF Len(buffer) < 4 THEN OctetStream
  ELSE IF Slice(buffer, 0, 4) = BytesPDF THEN MimePdf
  ELSE IF ByteAt(buffer, 0) = 255 /\ ByteAt(buffer, 1) = 216 /\ ByteAt(buffer, 2) = 255
    THEN MimeJpeg
  ELSE IF ByteAt(buffer, 0) = 137 /\ ByteAt(buffer, 1) = 80
          /\ ByteAt(buffer, 2) = 78 /\ ByteAt(buffer, 3) = 71
    THEN MimePng
  ELSE IF Slice(buffer, 0, 3) = BytesGIF THEN MimeGif
  ELSE IF Slice(buffer, 0, 4) = BytesRIFF /\ Slice(buffer, 8, 12) = BytesWEBP THEN MimeWebp
  ELSE IF ByteAt(buffer, 0) = 80 /\ ByteAt(buffer, 1) = 75 THEN
    LET zipBuffer == Slice(buffer, 0, 100) IN
    IF Includes(zipBuffer, BytesWord) THEN MimeDocx
    ELSE IF Includes(zipBuffer, BytesXl) THEN MimeXlsx
    ELSE IF Includes(zipBuffer, BytesPpt) THEN MimePptx
    ELSE MimeZip
  ELSE OctetStream

(***************************************************************************)
(* Results (IDownloadResult, IDownloadedFile) and processDownloadResponse  *)
(***************************************************************************)
ErrUnknown == << "Unknown error" >>
ErrTooLarge == << "File too large to process in memory" >>
ErrDrainTimeout == << "Timeout while converting stream to buffer" >>
ErrTokenNotFound == << "Confirmation token not found for large file" >>
ErrStream == << "stream error" >>
ErrAllFailed == << "All download attempts failed" >>
NumText == << "1", "2", "3", "4", "5", "6", "7", "8", "9", "10", "11", "12" >>
\* The message of the transport error raised by the n-th request of the call.
NetError(n) == << "request failed: #", NumText[n] >>

\* A thrown value that is not an Error (`throw lastError!` with lastError unset).
ThrowUndefined == [threw |-> TRUE, value |-> None, error |-> None]

\* { success: false, error }
Failure(message) ==
  [success |-> FALSE, file |-> None, fileName |-> None, fileId |-> None,
   mimeType |-> None, size |-> None, error |-> Some(message), totalBytes |-> None]

\* finalMimeType || 'application/octet-stream'
OrOctetStream(mime) == IF Truthy(mime) THEN Get(mime) ELSE OctetStream

\* The adjustment with the new extension appended to the unchanged name.
AdjustNameAndTypeKeepExt(fileInfo, exportFormat) ==
  IF exportFormat # StrOriginal
     /\ (IF Truthy(fileInfo.mimeType) THEN Get(fileInfo.mimeType) ELSE << >>) \in googleDocMimeTypes
    THEN IF fileInfo.name = None THEN Throw(ErrTypeError)
         ELSE LET finalFileName == Get(fileInfo.name) \o <<".">> \o exportFormat IN
              Return([name |-> Some(finalFileName),
                      mime |-> detectMimeTypeFromExtension(finalFileName)])
    ELSE Return([name |-> fileInfo.name, mime |-> fileInfo.mimeType])

\* "Adjust name and type based on export format": finalFileName, finalMimeType.
\* Calling replace on an undefined name raises a TypeError.
AdjustNameAndType(fileInfo, exportFormat) ==
  IF exportFormat # StrOriginal
     /\ (IF Truthy(fileInfo.mimeType) THEN Get(fileInfo.mimeType) ELSE << >>) \in googleDocMimeTypes
    THEN IF fileInfo.name = None THEN Throw(ErrTypeError)
         ELSE LET nameWithoutExt ==
                    RegexRemove(Get(fileInfo.name), << Lit(<<".">>), Star("notDot"), AtEnd >>)
                  finalFileName == nameWithoutExt \o <<".">> \o exportFormat
              IN Return([name |-> Some(finalFileName),
                         mime |-> detectMimeTypeFromExtension(finalFileName)])
    ELSE Return([name |-> fileInfo.name, mime |-> fileInfo.mimeType])

\* The asBuffer branch with the prior type winning over the detected one.
BufferResultPriorFirst(buffer, adj, fileId) ==
  LET detectedMimeType == detectMimeTypeFromBuffer(buffer)
      mime1 == IF Truthy(adj.mime) THEN adj.mime ELSE Some(detectedMimeType)
      needExt == ~Truthy(mime1) \/ Get(mime1) = OctetStream
  IN IF needExt /\ adj.name = None THEN Throw(ErrTypeError)
     ELSE LET extensionMimeType ==
                IF needExt THEN detectMimeTypeFromExtension(Get(adj.name)) ELSE None
              finalMimeType == IF Truthy(extensionMimeType) THEN extensionMimeType ELSE mime1
          IN Return(
               [success |-> TRUE,
                file |-> Some([buffer |-> Some(buffer), stream |-> None,
                               size |-> Some(Len(buffer)),
                               mimetype |-> OrOctetStream(finalMimeType),
                               originalname |-> adj.name]),
                fileName |-> adj.name, fileId |-> Some(fileId),
                mimeType |-> Some(OrOctetStream(finalMimeType)),
                size |-> Some(Len(buffer)), error |-> None, totalBytes |-> None])

\* The asBuffer branch after `await this.streamToBuffer(...)` has returned buffer.
BufferResult(buffer, adj, fileId) ==
  LET detectedMimeType == detectMimeTypeFromBuffer(buffer)
      mime1 == IF detectedMimeType # OctetStream THEN Some(detectedMimeType) ELSE adj.mime
      needExt == ~Truthy(mime1) \/ Get(mime1) = OctetStream
  IN IF needExt /\ adj.name = None THEN Throw(ErrTypeError)
     ELSE LET extensionMimeType ==
                IF needExt THEN detectMimeTypeFromExtension(Get(adj.name)) ELSE None
              finalMimeType == IF Truthy(extensionMimeType) THEN extensionMimeType ELSE mime1
          IN Return(
               [success |-> TRUE,
                file |-> Some([buffer |-> Some(buffer), stream |-> None,
                               size |-> Some(Len(buffer)),
                               mimetype |-> OrOctetStream(finalMimeType),
                               originalname |-> adj.name]),
                fileName |-> adj.name, fileId |-> Some(fileId),
                mimeType |-> Some(OrOctetStream(finalMimeType)),
                size |-> Some(Len(buffer)), error |-> None, totalBytes |-> None])

\* The header parsed without the `|| 0` fallback: NaN, written -1, gets through.
TotalBytesNoFallback(response) ==
  LET n == ParseInt(IF Truthy(response.contentLength) THEN Get(response.contentLength) ELSE <<"0">>)
  IN IF n = None THEN 0 - 1 ELSE Get(n)

\* parseInt(response.headers['content-length'] || '0', 10), then `totalBytes || 0`.
TotalBytes(response) ==
  LET n == ParseInt(IF Truthy(response.contentLength) THEN Get(response.contentLength) ELSE <<"0">>)
  IN IF n = None THEN 0 ELSE Get(n)

\* The else branch: the response body is handed over as the stream.
StreamResult(response, adj, fileId) ==
  [success |-> TRUE,
   file |-> Some([buffer |-> None, stream |-> Some(response.req), size |-> None,
                  mimetype |-> OrOctetStream(adj.mime), originalname |-> adj.name]),
   fileName |-> adj.name, fileId |-> Some(fileId),
   mimeType |-> Some(OrOctetStream(adj.mime)),
   size |-> None, error |-> None, totalBytes |-> Some(TotalBytes(response))]

\* A catch block that rethrows the error as it is.
WrapLargeRethrow(outcome) == outcome

\* The catch block of downloadLargeFile applied to the outcome of its try block.
WrapLarge(outcome) ==
  IF outcome.threw
    THEN Throw(<< "Large file download error: " >>
               \o (IF outcome.error = None THEN << "Unknown" >> ELSE Get(outcome.error)))
    ELSE outcome

\* A boundary that lets the exception escape: the promise of download rejects.
DownloadBoundaryRethrow(outcome) ==
  IF outcome.threw
    THEN [state |-> "rejected", value |-> None,
          reason |-> Some(IF outcome.error = None THEN ErrUnknown ELSE Get(outcome.error))]
    ELSE [state |-> "resolved", value |-> outcome.value, reason |-> None]

\* The try / catch of download applied to the outcome of its try block: the
\* promise download returns.
DownloadBoundary(outcome) ==
  IF outcome.threw
    THEN [state |-> "resolved",
          value |-> Some(Failure(IF outcome.error = None THEN ErrUnknown ELSE Get(outcome.error))),
          reason |-> None]
    ELSE [state |-> "resolved", value |-> outcome.value, reason |-> None]

(***************************************************************************)
(* Endpoint strategy: getDownloadUrls                                      *)
(* A URL is the template literal of the source: <<text, fileId, text>>.    *)
(***************************************************************************)
ExportUrl(app, fileId, format) ==
  << "https://docs.google.com/", app, "/d/", fileId, "/export?format=", format >>

UserContentUrl(fileId, qualifier) ==
  << "https://drive.usercontent.google.com/download?id=", fileId, "&export=download", qualifier >>

UcExportFirstUrl(fileId) == << "https://drive.google.com/uc?export=download&id=", fileId >>
UcIdFirstUrl(fileId) == << "https://drive.google.com/uc?id=", fileId, "&export=download" >>

\* A branch that pushes the pdf export URL before the native-format one.
BranchUrlsPdfFirst(app, native, fileId, exportFormat) ==
  (IF exportFormat = StrPdf \/ exportFormat = StrOriginal
     THEN << ExportUrl(app, fileId, StrPdf) >> ELSE << >>)
  \o
  (IF exportFormat = StrOriginal \/ exportFormat = native
     THEN << ExportUrl(app, fileId, native) >> ELSE << >>)

\* The pushes of one branch of the if / else-if chain.
BranchUrls(app, native, fileId, exportFormat) ==
  (IF exportFormat = StrOriginal \/ exportFormat = native
     THEN << ExportUrl(app, fileId, native) >> ELSE << >>)
  \o
  (IF exportFormat = StrPdf \/ exportFormat = StrOriginal
     THEN << ExportUrl(app, fileId, StrPdf) >> ELSE << >>)

\* The if / else-if chain on mimeType?.includes(...).
ExportUrls(fileId, mimeType, exportFormat) ==
  IF OptIncludes(mimeType, StrDocument)
    THEN BranchUrls(StrDocument, StrDocx, fileId, exportFormat)
  ELSE IF OptIncludes(mimeType, StrSpreadsheet)
    THEN BranchUrls(<<"s","p","r","e","a","d","s","h","e","e","t","s">>, StrXlsx, fileId, exportFormat)
  ELSE IF OptIncludes(mimeType, StrPresentation)
    THEN BranchUrls(StrPresentation, StrPptx, fileId, exportFormat)
  ELSE << >>

\* The five unconditional pushes, in the order of the source.
GenericUrls(fileId) ==
  << UserContentUrl(fileId, "&authuser=0"),
     UserContentUrl(fileId, "&confirm=t"),
     UserContentUrl(fileId, ""),
     UcExportFirstUrl(fileId),
     UcIdFirstUrl(fileId) >>

getDownloadUrls(fileId, mimeType, exportFormat) ==
  ExportUrls(fileId, mimeType, exportFormat) \o GenericUrls(fileId)

(***************************************************************************)
(* retryWithBackoff(fn, maxRetries, baseDelay)                             *)
(***************************************************************************)
RECURSIVE Pow2(_)
\* Math.pow(2, n)
Pow2(n) == IF n = 0 THEN 1 ELSE 2 * Pow2(n - 1)

\* A loop test that stops one attempt early.
RetryLoopTestStrict(attempt, maxRetries) == attempt < maxRetries

\* for (...; attempt <= maxRetries; ...)
RetryLoopTest(attempt, maxRetries) == attempt <= maxRetries

\* A delay that grows linearly with the attempt.
RetryDelayLinear(baseDelay, attempt) == baseDelay * (attempt + 1)

\* const delay = baseDelay * Math.pow(2, attempt)
RetryDelay(baseDelay, attempt) == baseDelay * Pow2(attempt)

\* The loop header, entered with `attempt`: either fn is invoked (its promise is
\* then awaited) or the loop is left and `throw lastError!` runs.
RetryIterate(h, attempt) ==
  IF RetryLoopTest(attempt, h.maxRetries)
    THEN [h EXCEPT !.pc = "awaitFn", !.attempt = attempt, !.calls = h.calls + 1]
    ELSE [h EXCEPT !.pc = "thrown", !.attempt = attempt, !.thrown = h.lastError]

\* The wrapped function of the harness: its c-th invocation raises error c while
\* c <= fails, and returns the value "ok" afterwards.
InitRetry ==
  /\ hUrls = HUrlsIdle /\ ExtraIdle
  /\ DownloadIdle
  /\ hRetry \in [pc : {"call"}, maxRetries : -1..MaxRetriesArg,
                 baseDelay : {DEFAULT_RETRY_DELAY, 250}, fails : 0..MaxFails,
                 attempt : {0}, calls : {0}, lastError : {None}, delays : {<< >>},
                 value : {None}, thrown : {None}]

\* let lastError; for (let attempt = 0; ...) { try { return await fn(); ...
RetryStart ==
  /\ hRetry.pc = "call"
  /\ hRetry' = RetryIterate(hRetry, 0)
  /\ UNCHANGED <<hUrls, dvars, xvars>>

\* fn's promise settles: `return await fn()` or the catch block.
RetryFnSettles ==
  /\ hRetry.pc = "awaitFn"
  /\ hRetry' =
       IF hRetry.calls > hRetry.fails
         THEN [hRetry EXCEPT !.pc = "returned", !.value = Some("ok")]
       ELSE IF hRetry.attempt = hRetry.maxRetries
         THEN [hRetry EXCEPT !.pc = "thrown", !.lastError = Some(hRetry.calls),
                             !.thrown = Some(hRetry.calls)]
       ELSE [hRetry EXCEPT !.pc = "sleep", !.lastError = Some(hRetry.calls),
                           !.delays = Append(hRetry.delays,
                                        RetryDelay(hRetry.baseDelay, hRetry.attempt))]
  /\ UNCHANGED <<hUrls, dvars, xvars>>

\* The backoff timer fires: attempt++ and the loop header again.
RetryWake ==
  /\ hRetry.pc = "sleep"
  /\ hRetry' = RetryIterate(hRetry, hRetry.attempt + 1)
  /\ UNCHANGED <<hUrls, dvars, xvars>>

NextRetry == RetryStart \/ RetryFnSettles \/ RetryWake

SpecRetry == InitRetry /\ [][NextRetry]_vars

\* C6: for a function that fails exactly `fails` times and then succeeds, with
\* maxRetries >= 0: if maxRetries >= fails the call returns fn's value after
\* exactly fails + 1 invocations; otherwise it throws after exactly
\* maxRetries + 1 invocations, and the error thrown is the last invocation's.
C6_RetryOutcome ==
  (hRetry.maxRetries >= 0 /\ hRetry.pc \in {"returned", "thrown"}) =>
    IF hRetry.maxRetries >= hRetry.fails
      THEN /\ hRetry.pc = "returned"
           /\ hRetry.value = Some("ok")
           /\ hRetry.calls = hRetry.fails + 1
      ELSE /\ hRetry.pc = "thrown"
           /\ hRetry.calls = hRetry.maxRetries + 1
           /\ hRetry.thrown = Some(hRetry.maxRetries + 1)

C6_Witness ==
  /\ hRetry.pc = "returned" /\ hRetry.fails = 2 /\ hRetry.maxRetries = 3
  /\ hRetry.calls = 3 /\ Len(hRetry.delays) = 2

\* C21: the delay slept after failed attempt a (from 0) is baseDelay * 2^a;
\* one delay lies between two consecutive attempts, and none follows the last
\* failed attempt or a successful one.
C21_BackoffDelays ==
  hRetry.pc \in {"awaitFn", "sleep", "returned", "thrown"} =>
    /\ \A a \in 1..Len(hRetry.delays) : hRetry.delays[a] = hRetry.baseDelay * 2^(a - 1)
    /\ hRetry.pc = "sleep" => Len(hRetry.delays) = hRetry.calls
    /\ (hRetry.pc \in {"awaitFn", "returned", "thrown"} /\ hRetry.calls >= 1) =>
         Len(hRetry.delays) = hRetry.calls - 1
    /\ hRetry.calls = 0 => hRetry.delays = << >>

C21_Witness ==
  /\ hRetry.pc = "thrown" /\ hRetry.maxRetries = 2 /\ hRetry.fails = 3
  /\ hRetry.baseDelay = 250 /\ hRetry.calls = 3
  /\ hRetry.delays = << 250, 500 >>

(***************************************************************************)
(* Harness of getDownloadUrls: Init draws the arguments, the action        *)
(* applies the function.                                                   *)
(***************************************************************************)
\* "ss", "A-1_b"
FileIds == { <<"s","s">>, <<"A","-","1","_","b">> }

ExportFormats == { StrOriginal, StrPdf, StrDocx, StrXlsx, StrPptx }

UrlsMimeTypes ==
  { None, Some(MimePdf), Some(OctetStream), Some(MimeTextPlain),
    Some(MimeDocx), Some(MimeXlsx), Some(MimePptx),
    Some(MimeGDocument), Some(MimeGSpreadsheet), Some(MimeGPresentation),
    Some(MimeGForm), Some(MimeGDrawing) }

InitUrls ==
  /\ hRetry = HRetryIdle /\ ExtraIdle
  /\ DownloadIdle
  /\ hUrls \in [pc : {"call"}, fileId : FileIds, mimeType : UrlsMimeTypes,
             exportFormat : ExportFormats, urls : {<< >>}]

CallGetDownloadUrls ==
  /\ hUrls.pc = "call"
  /\ UNCHANGED <<hRetry, dvars, xvars>>
  /\ hUrls' = [hUrls EXCEPT !.pc = "returned",
                 !.urls = getDownloadUrls(hUrls.fileId, hUrls.mimeType, hUrls.exportFormat)]

NextUrls == CallGetDownloadUrls

SpecUrls == InitUrls /\ [][NextUrls]_vars

IsExportUrl(u) == u[1] = "https://docs.google.com/"
IsUserContentUrl(u) == u[1] = "https://drive.usercontent.google.com/download?id="

\* C3 (as claimed): the list returned by getDownloadUrls ends with the
\* user-content endpoint in its default form, then with authuser=0, then with
\* confirm=t, then the two legacy uc variants.
C3_LastFiveAsClaimed ==
  hUrls.pc = "returned" =>
    LET n == Len(hUrls.urls)
        id == hUrls.fileId
    IN /\ n >= 5
       /\ SubSeq(hUrls.urls, n - 4, n) =
            << UserContentUrl(id, ""), UserContentUrl(id, "&authuser=0"),
               UserContentUrl(id, "&confirm=t"),
               UcExportFirstUrl(id), UcIdFirstUrl(id) >>

\* The app path segment and native format the claim gives each Workspace type.
WorkspaceApp(mime) ==
  IF mime = MimeGDocument THEN <<StrDocument, StrDocx>>
  ELSE IF mime = MimeGSpreadsheet
    THEN << <<"s","p","r","e","a","d","s","h","e","e","t","s">>, StrXlsx >>
  ELSE <<StrPresentation, StrPptx>>

\* C4: for a Workspace document, spreadsheet or presentation the list starts
\* with the native-format export URL iff exportFormat is original or the native
\* format, followed by the pdf export URL iff exportFormat is original or pdf;
\* these (at most two) are the only export URLs and precede every other candidate.
C4_ExportUrlsPrepended ==
  (hUrls.pc = "returned" /\ IsSome(hUrls.mimeType)
     /\ Get(hUrls.mimeType) \in {MimeGDocument, MimeGSpreadsheet, MimeGPresentation}) =>
    LET app == WorkspaceApp(Get(hUrls.mimeType))[1]
        native == WorkspaceApp(Get(hUrls.mimeType))[2]
        fmt == hUrls.exportFormat
        wantNative == fmt \in {StrOriginal, native}
        wantPdf == fmt \in {StrOriginal, StrPdf}
        k == (IF wantNative THEN 1 ELSE 0) + (IF wantPdf THEN 1 ELSE 0)
        urls == hUrls.urls
    IN /\ k <= 2 /\ Len(urls) = k + 5
       /\ \A j \in 1..Len(urls) : IsExportUrl(urls[j]) <=> j <= k
       /\ wantNative => urls[1] = ExportUrl(app, hUrls.fileId, native)
       /\ wantPdf => urls[k] = ExportUrl(app, hUrls.fileId, StrPdf)
       /\ (wantNative /\ wantPdf) => urls[2] = ExportUrl(app, hUrls.fileId, StrPdf)

C4_Witness ==
  /\ hUrls.pc = "returned"
  /\ hUrls.mimeType = Some(MimeGSpreadsheet)
  /\ hUrls.exportFormat = StrOriginal
  /\ Len(hUrls.urls) = 7
  /\ IsExportUrl(hUrls.urls[2])

\* C5 (as claimed): for a file whose media type is not a Workspace type the
\* list holds no export URL and is exactly the five generic download URLs.
C5_PlainFileOnlyGeneric ==
  (hUrls.pc = "returned" /\
     (hUrls.mimeType = None \/ Get(hUrls.mimeType) \notin googleDocMimeTypes)) =>
    /\ Len(hUrls.urls) = 5
    /\ \A j \in 1..Len(hUrls.urls) : ~IsExportUrl(hUrls.urls[j])

(***************************************************************************)
(* download: inputs of the call and outcomes of the network                *)
(***************************************************************************)
Entries == { "download", "downloadAsBuffer", "downloadAsStream" }

Urls ==
  { [isString |-> TRUE, chars |-> << >>],                \* ''
    [isString |-> FALSE, chars |-> << >>],               \* not a string
    \* "https://example.com/file"
    [isString |-> TRUE, chars |-> <<"h","t","t","p","s",":","/","/","e","x","a","m","p","l","e",".","c","o","m","/","f","i","l","e">>],
    \* "https://drive.google.com/file/d/ss/view"
    [isString |-> TRUE, chars |-> <<"h","t","t","p","s",":","/","/","d","r","i","v","e",".","g","o","o","g","l","e",".","c","o","m","/","f","i","l","e","/","d","/","s","s","/","v","i","e","w">>] }

CallerOptions ==
  [asBuffer : {None, Some(TRUE), Some(FALSE)},
   exportFormat : {None, Some(StrPdf), Some(StrDocx)},
   maxRetries : {None, Some(-1)},
   timeout : {None}]

\* "report.docx", "notes"
NameReport == <<"r","e","p","o","r","t",".","d","o","c","x">>
NameNotes == <<"n","o","t","e","s">>

\* response.data of the metadata API: [name, mimeType, size], each optional.
ApiData ==
  { [name |-> Some(NameReport), mimeType |-> Some(MimeGDocument), size |-> None],
    [name |-> Some(NameNotes), mimeType |-> Some(MimeGSpreadsheet), size |-> None],
    [name |-> Some(NameNotes), mimeType |-> Some(MimeGForm), size |-> None],
    [name |-> Some(NameReport), mimeType |-> Some(MimeDocx), size |-> Some(<<"2","0","4","8">>)],
    [name |-> None, mimeType |-> None, size |-> None] }

\* The metadata call: it raises (network failure, non-2xx), answers with a null
\* body, or answers with data.
ApiOutcomes ==
  { [kind |-> "throw", data |-> [name |-> None, mimeType |-> None, size |-> None]],
    [kind |-> "null", data |-> [name |-> None, mimeType |-> None, size |-> None]] }
  \cup { [kind |-> "ok", data |-> d] : d \in ApiData }

\* The view page: the request raises, the body is not a string, or it is HTML.
PageOutcomes ==
  { [kind |-> "throw", html |-> << >>],
    [kind |-> "nonString", html |-> << >>],
    \* <title>a.pdf - Google Drive</title>
    [kind |-> "html", html |-> <<"<","t","i","t","l","e",">","a",".","p","d","f"," ","-"," ","G","o","o","g","l","e"," ","D","r","i","v","e","<","/","t","i","t","l","e",">">>],
    \* <title>x</title><meta property="og:title" content="notes.txt">
    [kind |-> "html", html |-> <<"<","t","i","t","l","e",">","x","<","/","t","i","t","l","e",">","<","m","e","t","a"," ","p","r","o","p","e","r","t","y","=","\"","o","g",":","t","i","t","l","e","\""," ","c","o","n","t","e","n","t","=","\"","n","o","t","e","s",".","t","x","t","\"",">">>],
    \* <html></html>
    [kind |-> "html", html |-> <<"<","h","t","m","l",">","<","/","h","t","m","l",">">>] }

\* A streaming GET: it raises, or answers with headers and a body stream.
CandidateOutcomes ==
  { [kind |-> "throw", contentType |-> None, contentLength |-> None],
    \* content-type: text/html; charset=utf-8
    [kind |-> "response", contentType |-> Some(<<"t","e","x","t","/","h","t","m","l",";"," ","c","h","a","r","s","e","t","=","u","t","f","-","8">>),
     contentLength |-> None],
    \* content-type: application/octet-stream, content-length: 42
    [kind |-> "response", contentType |-> Some(OctetStream), contentLength |-> Some(<<"4","2">>)],
    \* no content-type and no content-length header
    [kind |-> "response", contentType |-> None, contentLength |-> None],
    \* content-length: n/a
    [kind |-> "response", contentType |-> None, contentLength |-> Some(<<"n","/","a">>)] }

\* The confirmation page.
ConfirmOutcomes ==
  { [kind |-> "throw", html |-> << >>],
    [kind |-> "nonString", html |-> << >>],
    \* <a href="/uc?export=download&amp;confirm=t0K_n&amp;id=ss">
    [kind |-> "html", html |-> <<"<","a"," ","h","r","e","f","=","\"","/","u","c","?","e","x","p","o","r","t","=","d","o","w","n","l","o","a","d","&","a","m","p",";","c","o","n","f","i","r","m","=","t","0","K","_","n","&","a","m","p",";","i","d","=","s","s","\"",">">>],
    \* <html>Quota exceeded</html>
    [kind |-> "html", html |-> <<"<","h","t","m","l",">","Q","u","o","t","a"," ","e","x","c","e","e","d","e","d","<","/","h","t","m","l",">">>] }

\* The chunks a body stream may emit: "%PDF" and "PK".
Chunks == { BytesPDF, <<80, 75>> }

(***************************************************************************)
(* download: the handlers, as functions of the state of the call           *)
(***************************************************************************)
St == [pc |-> pc, loc |-> loc, requests |-> requests, drain |-> drain, result |-> result]

Apply(n) ==
  /\ pc' = n.pc /\ loc' = n.loc /\ requests' = n.requests
  /\ drain' = n.drain /\ result' = n.result
  /\ UNCHANGED <<call, hUrls, hRetry, xvars>>

MetadataUrl(fileId) == << "https://www.googleapis.com/drive/v3/files/", fileId >>
ViewUrl(fileId) == << "https://drive.google.com/file/d/", fileId, "/view" >>
ConfirmPattern == << Lit(<<"c","o","n","f","i","r","m","=">>), Plus("token") >>

\* The confirmed download URL with the token left out.
ConfirmedUrlNoToken(confirmToken, fileId) ==
  << "https://drive.google.com/uc?export=download&confirm=", << >>, "&id=", fileId >>

ConfirmedUrl(confirmToken, fileId) ==
  << "https://drive.google.com/uc?export=download&confirm=", confirmToken, "&id=", fileId >>

\* Options spread with the caller's asBuffer winning: { asBuffer, ...options }.
WrapperOptionsCallerWins(entry, options) ==
  IF entry = "download" \/ options.asBuffer # None THEN options
  ELSE [options EXCEPT !.asBuffer = Some(entry = "downloadAsBuffer")]

\* downloadAsBuffer / downloadAsStream: { ...options, asBuffer: true | false }.
WrapperOptions(entry, options) ==
  IF entry = "downloadAsBuffer" THEN [options EXCEPT !.asBuffer = Some(TRUE)]
  ELSE IF entry = "downloadAsStream" THEN [options EXCEPT !.asBuffer = Some(FALSE)]
  ELSE options

\* A destructuring default: it applies to undefined only.
OrDefault(o, d) == IF o = None THEN d ELSE Get(o)

\* axios(...) / axios.get(...): the request is issued and awaited.
Request(st, url, timeout) ==
  [st EXCEPT !.requests = Append(@, [url |-> url, timeout |-> timeout])]

\* The try block of download ends with `outcome`.
Finish(st, outcome) ==
  [st EXCEPT !.pc = "done",
             !.result = DownloadBoundary(outcome),
             !.loc.escaped = IF outcome.threw THEN Some(outcome.error) ELSE None]

\* The same from inside downloadLargeFile, whose catch block wraps first.
FinishIn(st, outcome) == Finish(st, IF st.loc.large THEN WrapLarge(outcome) ELSE outcome)

\* The loop body requesting the first URL of the list again.
IssueCandidateFirstAgain(st, j) ==
  Request([st EXCEPT !.pc = "awaitCandidate", !.loc.i = j],
          st.loc.downloadUrls[1], st.loc.timeout)

\* The loop body for index j: the GET of downloadUrls[j].
IssueCandidate(st, j) ==
  Request([st EXCEPT !.pc = "awaitCandidate", !.loc.i = j],
          st.loc.downloadUrls[j + 1], st.loc.timeout)

\* contentType.includes('text/html'), contentType being the header or ''.
IsHtml(response) ==
  Includes(IF Truthy(response.contentType) THEN Get(response.contentType) ELSE << >>,
           StrTextHtml)

\* processDownloadResponse up to its first suspension: the name / type
\* adjustment, then either streamToBuffer is entered (listeners registered,
\* timer armed) or the stream result is returned.
Materialize(st, response) ==
  ByValue(AdjustNameAndType(Get(st.loc.fileInfo), st.loc.exportFormat), LAMBDA adj :
    IF adj.threw THEN FinishIn(st, adj)
    ELSE IF st.loc.asBuffer
      THEN [st EXCEPT !.pc = "drain", !.loc.adj = adj.value,
                      !.drain = [active |-> TRUE, chunks |-> << >>, totalSize |-> 0,
                                 stream |-> "flowing", timer |-> "armed",
                                 promise |-> "pending", buffer |-> None, reason |-> None]]
      ELSE FinishIn([st EXCEPT !.loc.adj = adj.value],
                    Return(StreamResult(response, Get(adj.value), Get(st.loc.fileId)))))

\* After the loop: `if (!response) throw ...`, then processDownloadResponse.
AfterLoop(st) ==
  IF st.loc.response = None THEN Finish(st, Throw(ErrAllFailed))
  ELSE Materialize(st, Get(st.loc.response))

\* The loop header for index j: `i < downloadUrls.length`.
LoopHeader(st, j) ==
  IF j < Len(st.loc.downloadUrls) THEN IssueCandidate(st, j)
  ELSE AfterLoop([st EXCEPT !.loc.i = j])

\* getFileInfo has returned fileInfo through retryWithBackoff: the candidate
\* list is built and the loop starts at i = 0.
StartFetchLoop(st, fileInfo, path) ==
  LoopHeader(
    [st EXCEPT !.loc.fileInfo = Some(fileInfo),
               !.loc.downloadUrls =
                  getDownloadUrls(Get(st.loc.fileId), fileInfo.mimeType, st.loc.exportFormat),
               !.loc.base = Len(st.requests),
               !.loc.metaPath = path],
    0)

\* retryWithBackoff around getFileInfo, entered with the outcome of fn(): the
\* try block returns it, or the catch block rethrows on the last attempt and
\* otherwise sleeps baseDelay * 2^attempt (recorded in loc.delays) before the
\* next iteration calls getFileInfo again.
AfterGetFileInfo(st, outcome, path) ==
  IF ~outcome.threw THEN StartFetchLoop(st, Get(outcome.value), path)
  ELSE IF st.loc.attempt = st.loc.maxRetries THEN Finish(st, outcome)
  ELSE Request([st EXCEPT !.pc = "awaitMetadata",
                          !.loc.delays = Append(@, RetryDelay(DEFAULT_RETRY_DELAY, st.loc.attempt)),
                          !.loc.attempt = @ + 1],
               MetadataUrl(Get(st.loc.fileId)), 10000)

\* The html branch on the last candidate: downloadLargeFile issues the GET of
\* the confirmation page.
EnterLargeFile(st) ==
  Request([st EXCEPT !.pc = "awaitConfirm", !.loc.large = TRUE],
          UcExportFirstUrl(Get(st.loc.fileId)), st.loc.timeout \div 2)

RECURSIVE Flatten(_)
\* Buffer.concat(chunks)
Flatten(chunks) == IF chunks = << >> THEN << >> ELSE Head(chunks) \o Flatten(Tail(chunks))

\* A limit applied to each chunk instead of the running total.
OverflowPerChunk(totalSize, chunk) == Len(chunk) > MaxBufferSize

\* if (totalSize > CONFIG.MAX_BUFFER_SIZE)
Overflow(totalSize, chunk) == totalSize > MaxBufferSize

\* A promise that every call of resolve / reject settles anew.
SettleOverwrite(d, how, buffer, reason) ==
  [d EXCEPT !.promise = how, !.buffer = buffer, !.reason = reason]

\* resolve / reject of the promise of streamToBuffer: the first call settles it.
Settle(d, how, buffer, reason) ==
  IF d.promise = "pending"
    THEN [d EXCEPT !.promise = how, !.buffer = buffer, !.reason = reason]
    ELSE d

\* After a stream or timer handler has left the drain as d: when it settled the
\* promise, processDownloadResponse resumes and the call ends.
AfterDrainEvent(st, d) ==
  LET st1 == [st EXCEPT !.drain = d] IN
  IF st.drain.promise = "pending" /\ d.promise = "resolved"
    THEN FinishIn(st1, BufferResult(Get(d.buffer), Get(st.loc.adj), Get(st.loc.fileId)))
  ELSE IF st.drain.promise = "pending" /\ d.promise = "rejected"
    THEN FinishIn(st1, Throw(Get(d.reason)))
  ELSE st1

(***************************************************************************)
(* download: the actions                                                   *)
(***************************************************************************)
Init ==
  /\ hUrls = HUrlsIdle /\ hRetry = HRetryIdle /\ ExtraIdle
  /\ call \in [entry : Entries, url : Urls, options : CallerOptions]
  /\ pc = "call" /\ loc = LocInit /\ requests = << >>
  /\ drain = DrainIdle /\ result = ResultPending

\* download(url, options) up to its first await: destructuring, extractFileId,
\* the first iteration of retryWithBackoff, the metadata request of getFileInfo.
OnDownloadCall(c, st) ==
  LET options == WrapperOptions(c.entry, c.options)
      st0 == [st EXCEPT !.loc.timeout = OrDefault(options.timeout, DEFAULT_TIMEOUT),
                        !.loc.maxRetries = OrDefault(options.maxRetries, DEFAULT_MAX_RETRIES),
                        !.loc.exportFormat = OrDefault(options.exportFormat, StrOriginal),
                        !.loc.asBuffer = OrDefault(options.asBuffer, TRUE)]
      id == extractFileId(c.url)
  IN IF id.threw THEN Finish(st0, id)
     ELSE IF ~RetryLoopTest(0, st0.loc.maxRetries) THEN Finish(st0, ThrowUndefined)
     ELSE Request([st0 EXCEPT !.pc = "awaitMetadata", !.loc.fileId = id.value],
                  MetadataUrl(Get(id.value)), 10000)

\* getFileInfo: the metadata request settles with o.
OnMetadata(st, o) ==
  IF o.kind = "ok"
    THEN AfterGetFileInfo(st, Return(FileInfoFromApi(o.data)), "api")
    ELSE Request([st EXCEPT !.pc = "awaitPage", !.loc.netThrew = (o.kind = "throw")],
                 ViewUrl(Get(st.loc.fileId)), 15000)

\* getFileInfoFromPage: the request of the view page settles with o.
OnPage(st, o) ==
  AfterGetFileInfo([st EXCEPT !.loc.netThrew = @ \/ (o.kind = "throw")],
                   PageCatch(PageTry(o, Get(st.loc.fileId)), Get(st.loc.fileId)),
                   IF o.kind = "html" THEN "page" ELSE "pageFailed")

\* A test that no index of the loop satisfies.
IsLastCandidateNever(st) == st.loc.i = Len(st.loc.downloadUrls)

\* i === downloadUrls.length - 1
IsLastCandidate(st) == st.loc.i = Len(st.loc.downloadUrls) - 1

\* A catch block that keeps the first error recorded and surfaces that one.
CatchCandidateKeepFirst(st, n) ==
  LET e == IF st.loc.lastError = None THEN NetError(n) ELSE Get(st.loc.lastError)
      caught == [st EXCEPT !.loc.lastError = Some(e), !.loc.netThrew = TRUE]
  IN IF IsLastCandidate(st) THEN Finish(caught, Throw(e))
     ELSE LoopHeader(caught, st.loc.i + 1)

\* The catch block of the loop body, entered with the error of request n.
CatchCandidate(st, n) ==
  LET caught == [st EXCEPT !.loc.lastError = Some(NetError(n)), !.loc.netThrew = TRUE]
  IN IF IsLastCandidate(st) THEN Finish(caught, Throw(NetError(n)))
     ELSE LoopHeader(caught, st.loc.i + 1)

\* The fetch loop: the GET of downloadUrls[i] settles with o.
OnCandidate(st, o) ==
  LET n == Len(st.requests)
      response == [req |-> n, contentType |-> o.contentType,
                   contentLength |-> o.contentLength]
      got == [st EXCEPT !.loc.response = Some(response)]
  IN IF o.kind = "throw" THEN CatchCandidate(st, n)
     ELSE IF IsHtml(response)
       THEN IF IsLastCandidate(st) THEN EnterLargeFile(got)
            ELSE LoopHeader(got, st.loc.i + 1)
     ELSE AfterLoop(got)

\* downloadLargeFile: the GET of the confirmation page settles with o.
OnConfirm(st, o) ==
  LET confirmMatch == RegexMatch(o.html, ConfirmPattern)
      st1 == [st EXCEPT !.loc.confirmData = Some(o.html)]
  IN IF o.kind = "throw"
       THEN FinishIn([st EXCEPT !.loc.netThrew = TRUE], Throw(NetError(Len(st.requests))))
     ELSE IF o.kind = "nonString" THEN FinishIn(st, Throw(ErrTypeError))
     ELSE IF confirmMatch = None THEN FinishIn(st1, Throw(ErrTokenNotFound))
     ELSE Request([st1 EXCEPT !.pc = "awaitConfirmed",
                              !.loc.confirmToken = Some(Get(confirmMatch).runs[1])],
                  ConfirmedUrl(Get(confirmMatch).runs[1], Get(st.loc.fileId)),
                  st.loc.timeout)

\* downloadLargeFile: the confirmed download GET settles with o.
OnConfirmed(st, o) ==
  LET response == [req |-> Len(st.requests), contentType |-> o.contentType,
                   contentLength |-> o.contentLength]
  IN IF o.kind = "throw"
       THEN FinishIn([st EXCEPT !.loc.netThrew = TRUE], Throw(NetError(Len(st.requests))))
       ELSE Materialize([st EXCEPT !.loc.largeResponse = Some(response)], response)

\* streamToBuffer: the 'data' handler, called with chunk.
OnData(st, chunk) ==
  LET d1 == [st.drain EXCEPT !.chunks = Append(@, chunk), !.totalSize = @ + Len(chunk)]
      d2 == IF Overflow(d1.totalSize, chunk)
              THEN Settle([d1 EXCEPT !.stream = "destroyed"], "rejected",
                          None, Some(ErrTooLarge))
              ELSE d1
  IN AfterDrainEvent(st, d2)

\* streamToBuffer: the 'end' handler.
OnEnd(st) ==
  AfterDrainEvent(st, Settle([st.drain EXCEPT !.stream = "ended"], "resolved",
                             Some(Flatten(st.drain.chunks)), None))

\* streamToBuffer: the 'error' handler.
OnStreamError(st) ==
  AfterDrainEvent(st, Settle([st.drain EXCEPT !.stream = "errored"], "rejected",
                             None, Some(ErrStream)))

\* streamToBuffer: the callback of the 60 s timer.
OnDrainTimer(st) ==
  AfterDrainEvent(st,
    Settle([st.drain EXCEPT !.timer = "fired",
                            !.stream = IF @ = "flowing" THEN "destroyed" ELSE @],
           "rejected", None, Some(ErrDrainTimeout)))

\* The events a call in state st can receive: its awaited request settles, its
\* body stream emits 'data', 'end' or 'error', its drain timer fires.  An 'end'
\* already scheduled when destroy() is called is still delivered; the timer is
\* never cleared.
CanData(st) == st.drain.active /\ st.drain.stream = "flowing"
CanEnd(st) == st.drain.active /\ st.drain.stream \in {"flowing", "destroyed"}
CanStreamError(st) == st.drain.active /\ st.drain.stream = "flowing"
CanDrainTimer(st) == st.drain.active /\ st.drain.timer = "armed"

DownloadCall ==
  /\ pc = "call"
  /\ \E n \in {OnDownloadCall(call, St)} : Apply(n)

MetadataSettles ==
  /\ pc = "awaitMetadata"
  /\ \E o \in ApiOutcomes : \E n \in {OnMetadata(St, o)} : Apply(n)

PageSettles ==
  /\ pc = "awaitPage"
  /\ \E o \in PageOutcomes : \E n \in {OnPage(St, o)} : Apply(n)

CandidateSettles ==
  /\ pc = "awaitCandidate"
  /\ \E o \in CandidateOutcomes : \E n \in {OnCandidate(St, o)} : Apply(n)

ConfirmSettles ==
  /\ pc = "awaitConfirm"
  /\ \E o \in ConfirmOutcomes : \E n \in {OnConfirm(St, o)} : Apply(n)

ConfirmedSettles ==
  /\ pc = "awaitConfirmed"
  /\ \E o \in CandidateOutcomes : \E n \in {OnConfirmed(St, o)} : Apply(n)

StreamData ==
  /\ CanData(St)
  /\ \E chunk \in Chunks : \E n \in {OnData(St, chunk)} : Apply(n)

StreamEnd ==
  /\ CanEnd(St)
  /\ \E n \in {OnEnd(St)} : Apply(n)

StreamError ==
  /\ CanStreamError(St)
  /\ \E n \in {OnStreamError(St)} : Apply(n)

DrainTimerFires ==
  /\ CanDrainTimer(St)
  /\ \E n \in {OnDrainTimer(St)} : Apply(n)

Next ==
  \/ DownloadCall
  \/ MetadataSettles
  \/ PageSettles
  \/ CandidateSettles
  \/ ConfirmSettles
  \/ ConfirmedSettles
  \/ StreamData
  \/ StreamEnd
  \/ StreamError
  \/ DrainTimerFires

Spec == Init /\ [][Next]_vars

\* Calls of download itself, under the assumption that every network operation
\* eventually returns or fails and that an armed timer eventually fires.  A
\* body stream is under no obligation: it may stall forever.
FairOptions ==
  [asBuffer : {None, Some(FALSE)},
   exportFormat : {None},
   maxRetries : {None, Some(0), Some(-1)},
   timeout : {None}]

InitFair ==
  /\ hUrls = HUrlsIdle /\ hRetry = HRetryIdle /\ ExtraIdle
  /\ call \in [entry : {"download"}, url : Urls, options : FairOptions]
  /\ pc = "call" /\ loc = LocInit /\ requests = << >>
  /\ drain = DrainIdle /\ result = ResultPending

SpecFair ==
  /\ InitFair /\ [][Next]_vars
  /\ WF_vars(DownloadCall)
  /\ WF_vars(MetadataSettles) /\ WF_vars(PageSettles)
  /\ WF_vars(CandidateSettles)
  /\ WF_vars(ConfirmSettles) /\ WF_vars(ConfirmedSettles)
  /\ WF_vars(DrainTimerFires)

(***************************************************************************)
(* Properties of download                                                  *)
(***************************************************************************)
Resolved == result.state = "resolved" /\ IsSome(result.value)
Succeeded == Resolved /\ Get(result.value).success
Failed == Resolved /\ ~Get(result.value).success

\* C1 (as claimed): whenever a network step of the call has raised, the value
\* the call resolves to is a Failure.
C1_AnyThrowIsFailure ==
  (pc = "done" /\ loc.netThrew) => Failed

\* C1 (amended): the promise of download, downloadAsBuffer and downloadAsStream
\* never rejects and every call that ends resolves to a result value; an empty
\* or non-string url gives the invalid-url Failure; and the value is
\* Failure{success = false, error} with the escaping exception's message
\* exactly when an exception escapes the try block of download.
C1_AlwaysResolves ==
  /\ result.state # "rejected"
  /\ pc # "done" =>
       /\ result = ResultPending
       /\ pc \in {"call", "awaitMetadata", "awaitPage", "awaitCandidate",
                  "awaitConfirm", "awaitConfirmed", "drain"}
       /\ pc = "drain" => (drain.active /\ drain.stream = "flowing"
                            /\ drain.promise = "pending")
  /\ pc = "done" =>
       /\ Resolved
       /\ LET r == Get(result.value) IN
          /\ r.success => (r.error = None /\ IsSome(r.file) /\ loc.escaped = None)
          /\ ~r.success =>
               /\ loc.escaped # None
               /\ r = Failure(IF Get(loc.escaped) = None THEN << "Unknown error" >>
                              ELSE Get(Get(loc.escaped)))
          /\ (~call.url.isString \/ call.url.chars = << >>) =>
               r = Failure(<< "Invalid URL provided" >>)

C1_Witness ==
  /\ pc = "done" /\ call.entry = "downloadAsBuffer" /\ loc.large
  /\ loc.escaped = Some(Some(<< "Large file download error: " >> \o ErrTooLarge))
  /\ Failed

\* The asBuffer choice of the caller: the wrappers fix it, download defaults to true.
ExpectedAsBuffer ==
  \/ call.entry = "downloadAsBuffer"
  \/ call.entry = "download" /\ call.options.asBuffer \in {None, Some(TRUE)}

\* C2: every Success carries a file with exactly one of buffer and stream:
\* the buffer iff asBuffer is true (default, or downloadAsBuffer), the stream iff
\* it is false (or downloadAsStream, whatever asBuffer the caller put in the
\* options), on the ordinary path and on the confirmation path.
C2_ExactlyOneOfBufferAndStream ==
  Succeeded =>
    LET f == Get(result.value).file IN
    /\ IsSome(f)
    /\ IsSome(Get(f).buffer) <=> ~IsSome(Get(f).stream)
    /\ IsSome(Get(f).buffer) <=> ExpectedAsBuffer

C2_Witness ==
  /\ Succeeded /\ loc.large
  /\ call.entry = "downloadAsStream" /\ call.options.asBuffer = Some(TRUE)
  /\ IsSome(Get(Get(result.value).file).stream)

\* C7: getFileInfo always returns a FileInfo: once the metadata request has been
\* issued the call does not leave the metadata phase without one; when the
\* primary call fails the view page is requested next; and when that fails too
\* the FileInfo is {name: file_<id>, mimeType absent}.
C7_GetFileInfoAlwaysReturns ==
  /\ (Len(requests) > 0 /\ pc \notin {"awaitMetadata", "awaitPage"}) =>
       (IsSome(loc.fileInfo) /\ loc.metaPath # "none")
  /\ loc.metaPath = "api" => loc.base = 1
  /\ (pc = "awaitPage" \/ loc.metaPath \in {"page", "pageFailed"}) =>
       /\ Len(requests) >= 2
       /\ requests[1].url = << "https://www.googleapis.com/drive/v3/files/", Get(loc.fileId) >>
       /\ requests[2].url = << "https://drive.google.com/file/d/", Get(loc.fileId), "/view" >>
  /\ loc.metaPath = "pageFailed" =>
       loc.fileInfo = Some([name |-> Some(<<"f","i","l","e","_">> \o Get(loc.fileId)),
                            mimeType |-> None, size |-> None])

C7_Witness ==
  /\ loc.metaPath = "pageFailed" /\ loc.netThrew /\ Succeeded
  /\ Get(result.value).fileName = Some(<<"f","i","l","e","_","s","s">>)

\* C8: in buffer mode, once the bytes received exceed the maximum the stream
\* is destroyed and the call has resolved to the too-large Failure (and stays
\* so when an 'end' arrives later); a Success never carries a buffer longer
\* than the maximum or shorter than everything the body emitted.
C8_SizeCeiling ==
  /\ (drain.active /\ drain.totalSize > MaxBufferSize) =>
       /\ drain.stream \in {"destroyed", "ended"}
       /\ pc = "done" /\ Failed
       /\ Get(Get(result.value).error) \in
            { ErrTooLarge, << "Large file download error: " >> \o ErrTooLarge }
  /\ (Succeeded /\ IsSome(Get(Get(result.value).file).buffer)) =>
       LET b == Get(Get(Get(result.value).file).buffer) IN
       /\ Len(b) <= MaxBufferSize
       /\ b = Flatten(drain.chunks)
       /\ Get(result.value).size = Some(drain.totalSize)

C8_Witness ==
  /\ drain.active /\ drain.totalSize > MaxBufferSize /\ drain.stream = "ended"
  /\ Failed /\ Get(result.value).error = Some(ErrTooLarge)

\* Index in `requests` of the GET of the last candidate.
LastCandidateRequest == loc.base + Len(loc.downloadUrls)

\* Every ordinary candidate has returned an HTML response: none raised, none
\* was accepted, and the last one has answered with HTML.
AllCandidatesHtml ==
  /\ IsSome(loc.fileInfo) /\ loc.lastError = None /\ IsSome(loc.response)
  /\ Get(loc.response).req = LastCandidateRequest
  /\ Includes(OrDefault(Get(loc.response).contentType, << >>), StrTextHtml)

StrConfirmEq == <<"c","o","n","f","i","r","m","=">>

\* C9: when every ordinary candidate returned HTML the next request is the GET
\* of uc?export=download&id=<id>; if its body contains confirm=<token> the
\* request after it is the GET of the same endpoint with that token and a
\* Success is built from the response of that request; if the body contains no
\* confirm=, no further request is issued and the call resolves to the Failure
\* reporting that the confirmation token was not found.
C9_ConfirmationFlow ==
  AllCandidatesHtml =>
    LET n == LastCandidateRequest
        id == Get(loc.fileId)
    IN /\ loc.large /\ Len(requests) >= n + 1
       /\ requests[n + 1].url = << "https://drive.google.com/uc?export=download&id=", id >>
       /\ (IsSome(loc.confirmData) /\ Includes(Get(loc.confirmData), StrConfirmEq)) =>
            /\ IsSome(loc.confirmToken) /\ Len(requests) = n + 2
            /\ Includes(Get(loc.confirmData), StrConfirmEq \o Get(loc.confirmToken))
            /\ requests[n + 2].url =
                 << "https://drive.google.com/uc?export=download&confirm=",
                    Get(loc.confirmToken), "&id=", id >>
            /\ Succeeded =>
                 /\ IsSome(loc.largeResponse) /\ Get(loc.largeResponse).req = n + 2
                 /\ LET f == Get(Get(result.value).file) IN
                    IF loc.asBuffer THEN f.buffer = Some(Flatten(drain.chunks))
                                    ELSE f.stream = Some(n + 2)
       /\ (IsSome(loc.confirmData) /\ ~Includes(Get(loc.confirmData), StrConfirmEq)) =>
            /\ Len(requests) = n + 1 /\ pc = "done"
            /\ result.value = Some(Failure(<< "Large file download error: ",
                                              "Confirmation token not found for large file" >>))

C9_Witness ==
  /\ AllCandidatesHtml /\ Succeeded
  /\ loc.confirmToken = Some(<<"t","0","K","_","n">>)
  /\ Get(Get(result.value).file).stream = Some(LastCandidateRequest + 2)

\* The name with its last '.' and what follows removed.
Stem(name) ==
  LET dots == { i \in 1..Len(name) : name[i] = "." } IN
  IF dots = {} THEN name
  ELSE SubSeq(name, 1, (CHOOSE i \in dots : \A j \in dots : j <= i) - 1)

\* The call resolved a Workspace document and exportFormat is pdf.
DocumentAsPdf ==
  /\ IsSome(loc.fileInfo) /\ Get(loc.fileInfo).mimeType = Some(MimeGDocument)
  /\ loc.exportFormat = StrPdf

\* The Success was built from the response of the first candidate.
FirstCandidateAccepted ==
  /\ Succeeded /\ ~loc.large
  /\ IsSome(loc.response) /\ Get(loc.response).req = loc.base + 1

\* C10 (as claimed): for a Workspace document with exportFormat pdf the first
\* candidate requested is the document-export pdf URL, and a Success built from
\* its non-HTML response is named <stem>.pdf with media type application/pdf,
\* in buffer mode and in stream mode.
C10_PdfExportAsClaimed ==
  DocumentAsPdf =>
    /\ requests[loc.base + 1].url =
         << "https://docs.google.com/", StrDocument, "/d/", Get(loc.fileId),
            "/export?format=", StrPdf >>
    /\ FirstCandidateAccepted =>
         LET r == Get(result.value) IN
         /\ r.fileName = Some(Stem(Get(Get(loc.fileInfo).name)) \o <<".","p","d","f">>)
         /\ Get(r.file).originalname = r.fileName
         /\ r.mimeType = Some(MimePdf)
         /\ Get(r.file).mimetype = MimePdf

\* C10 (amended): as claimed for the URL and the name; the media type is
\* application/pdf in stream mode, and in buffer mode unless the classification
\* of the drained bytes yields a specific type, which is then the media type.
C10_PdfExport ==
  DocumentAsPdf =>
    /\ requests[loc.base + 1].url =
         << "https://docs.google.com/", StrDocument, "/d/", Get(loc.fileId),
            "/export?format=", StrPdf >>
    /\ FirstCandidateAccepted =>
         LET r == Get(result.value)
             sniffed == IF loc.asBuffer
                          THEN detectMimeTypeFromBuffer(Get(Get(r.file).buffer))
                          ELSE OctetStream
             expected == IF sniffed # OctetStream THEN sniffed ELSE MimePdf
         IN /\ r.fileName = Some(Stem(Get(Get(loc.fileInfo).name)) \o <<".","p","d","f">>)
            /\ Get(r.file).originalname = r.fileName
            /\ r.mimeType = Some(expected)
            /\ Get(r.file).mimetype = expected

C10_Witness ==
  /\ DocumentAsPdf /\ FirstCandidateAccepted /\ loc.asBuffer
  /\ Get(result.value).fileName = Some(<<"r","e","p","o","r","t",".","p","d","f">>)
  /\ Get(result.value).mimeType = Some(MimeZip)

\* The response a Success is built from.
AcceptedResponse == IF loc.large THEN Get(loc.largeResponse) ELSE Get(loc.response)

\* The integer a content-length header stands for; 0 when absent or not a number.
HeaderValue(h) ==
  IF h = None \/ Get(h) = << >> THEN 0
  ELSE IF \A k \in 1..Len(Get(h)) : Get(h)[k] \in Range(Digits)
    THEN DigitsValue(Get(h), 0)
    ELSE 0

\* C11: in stream mode no byte of the body is read and neither the size limit
\* nor the drain timer is armed; a Success carries the body of the accepted
\* response as its stream, totalBytes is the integer value of the
\* content-length header (0 when absent or unparseable) and the media type is
\* the one derived from the metadata or the exported name, with no sniffing.
C11_StreamUndrained ==
  (pc # "call" /\ ~loc.asBuffer) =>
    /\ drain = DrainIdle
    /\ Succeeded =>
         LET r == Get(result.value)
             fi == Get(loc.fileInfo)
             exported == loc.exportFormat # <<"o","r","i","g","i","n","a","l">>
                         /\ IsSome(fi.mimeType) /\ Get(fi.mimeType) \in googleDocMimeTypes
             derived == IF exported THEN detectMimeTypeFromExtension(Get(r.fileName))
                        ELSE fi.mimeType
             expected == IF derived = None \/ Get(derived) = << >>
                           THEN <<"a","p","p","l","i","c","a","t","i","o","n","/","o","c","t","e","t","-","s","t","r","e","a","m">>
                           ELSE Get(derived)
         IN /\ Get(r.file).stream = Some(AcceptedResponse.req)
            /\ Get(r.file).buffer = None /\ Get(r.file).size = None /\ r.size = None
            /\ r.totalBytes = Some(HeaderValue(AcceptedResponse.contentLength))
            /\ r.mimeType = Some(expected) /\ Get(r.file).mimetype = expected

C11_Witness ==
  /\ pc = "done" /\ ~loc.asBuffer /\ Succeeded /\ ~loc.large
  /\ Get(loc.response).contentLength = Some(<<"n","/","a">>)
  /\ Get(result.value).totalBytes = Some(0)
  /\ Get(result.value).mimeType = Some(MimePdf)

\* C15 (as claimed): no Success is built from a response whose declared
\* content type contains text/html, be it the response of an ordinary
\* candidate or of the confirmed download of the large-file flow.
C15_HtmlNeverContent ==
  Succeeded =>
    ~Includes(OrDefault(AcceptedResponse.contentType, << >>),
              <<"t","e","x","t","/","h","t","m","l">>)

\* The number of candidates requested so far.
CandidatesRequested ==
  IF loc.large THEN Len(loc.downloadUrls) ELSE Len(requests) - loc.base

\* The last response received from a candidate, when it is not HTML.
NonHtmlResponse ==
  /\ IsSome(loc.response)
  /\ ~Includes(OrDefault(Get(loc.response).contentType, << >>), StrTextHtml)

\* C16: the candidates are requested in list order, each at most once; once a
\* candidate has answered with a non-HTML content type no further request is
\* issued, and a Success is built from that response.
C16_CandidatesInOrder ==
  IsSome(loc.fileInfo) =>
    LET n == Len(loc.downloadUrls)
        k == CandidatesRequested
    IN /\ 1 <= k /\ k <= n /\ k = loc.i + 1
       /\ \A a, b \in 1..n : a # b => loc.downloadUrls[a] # loc.downloadUrls[b]
       /\ \A j \in 1..k : requests[loc.base + j].url = loc.downloadUrls[j]
       /\ NonHtmlResponse =>
            /\ ~loc.large
            /\ Get(loc.response).req = loc.base + k
            /\ Len(requests) = loc.base + k
            /\ Succeeded =>
                 LET f == Get(Get(result.value).file) IN
                 IF loc.asBuffer THEN drain.active /\ f.buffer = Some(Flatten(drain.chunks))
                                 ELSE f.stream = Some(loc.base + k)

C16_Witness ==
  /\ NonHtmlResponse /\ Succeeded /\ loc.i = 2 /\ loc.metaPath = "api"
  /\ Len(requests) = 4 /\ Len(loc.downloadUrls) = 7
  /\ Get(Get(result.value).file).stream = Some(4)

\* C17 (as claimed): the large-file confirmation flow is entered only when
\* every ordinary candidate returned an HTML page, never when some candidate
\* failed with a transport error.
C17_LargeOnlyWhenAllHtml ==
  loc.large => (loc.lastError = None /\ AllCandidatesHtml)

\* The number of the request whose transport error is recorded in lastError.
LastErrorRequest ==
  CHOOSE r \in 1..Len(requests) : Get(loc.lastError) = << "request failed: #", NumText[r] >>

\* C18: a transport error on a candidate that is not the last is absorbed and
\* the next candidate is requested; a transport error on the last candidate
\* ends the call with the Failure carrying that error's message, and the
\* confirmation flow is not entered.
C18_TransportErrors ==
  (IsSome(loc.fileInfo) /\ IsSome(loc.lastError)) =>
    LET r == LastErrorRequest
        j == r - loc.base
    IN /\ 1 <= j /\ j <= Len(loc.downloadUrls)
       /\ j < Len(loc.downloadUrls) =>
            /\ Len(requests) >= r + 1
            /\ requests[r + 1].url = loc.downloadUrls[j + 1]
            /\ (pc = "done" /\ Failed) =>
                 Get(result.value).error # Some(<< "request failed: #", NumText[r] >>)
       /\ j = Len(loc.downloadUrls) =>
            /\ pc = "done" /\ ~loc.large /\ Len(requests) = r
            /\ result.value = Some(Failure(<< "request failed: #", NumText[r] >>))

C18_Witness ==
  /\ pc = "done" /\ Failed /\ IsSome(loc.lastError) /\ IsSome(loc.response)
  /\ Len(loc.downloadUrls) = 5 /\ loc.base = 2 /\ Len(requests) = 7
  /\ Get(result.value).error = Some(<< "request failed: #", "7" >>)
  /\ Get(loc.response).req = 6

\* C19 (as claimed): the confirmed download GET of the large-file flow is
\* given the large-file timeout, which is strictly longer than the timeout of
\* the candidate requests of the same call.
C19_LargeTimeoutLonger ==
  (loc.large /\ IsSome(loc.confirmToken)) =>
    LET confirmed == requests[LastCandidateRequest + 2] IN
    /\ confirmed.timeout = LARGE_FILE_TIMEOUT
    /\ \A j \in 1..Len(loc.downloadUrls) : confirmed.timeout > requests[loc.base + j].timeout

\* The messages of the failures that can occur inside the confirmation flow.
LargeFlowErrors ==
  { << "request failed: #", NumText[r] >> : r \in 1..Len(NumText) }
  \cup { << "Confirmation token not found for large file" >>,
         << "File too large to process in memory" >>,
         << "Timeout while converting stream to buffer" >>,
         ErrStream, ErrTypeError }

\* C20: a call that entered the confirmation flow and failed resolves to the
\* Failure whose error is "Large file download error: " followed by the
\* underlying message (of the failed fetch, of the missing token, or of the
\* drain), and from then on no request is issued and the result stays.
C20_LargeFailureWrapped ==
  /\ []((loc.large /\ pc = "done" /\ ~Succeeded) =>
          /\ Failed
          /\ Head(Get(Get(result.value).error)) = "Large file download error: "
          /\ Tail(Get(Get(result.value).error)) \in LargeFlowErrors
          /\ (drain.active /\ drain.promise = "rejected") =>
               Tail(Get(Get(result.value).error)) = Get(drain.reason)
          /\ (IsSome(loc.confirmData) /\ loc.confirmToken = None) =>
               Tail(Get(Get(result.value).error)) = ErrTokenNotFound
          /\ (loc.confirmData = None /\ loc.netThrew /\ ~drain.active /\ loc.confirmToken = None
                /\ Len(requests) = LastCandidateRequest + 1) =>
               Tail(Get(Get(result.value).error)) \in
                 { << "request failed: #", NumText[LastCandidateRequest + 1] >>, ErrTypeError })
  /\ [][(loc.large /\ pc = "done") => (requests' = requests /\ result' = result /\ pc' = pc)]_vars

C20_Witness ==
  /\ loc.large /\ pc = "done" /\ Failed /\ drain.active
  /\ Get(result.value).error =
       Some(<< "Large file download error: ", "Timeout while converting stream to buffer" >>)
  /\ Len(requests) = LastCandidateRequest + 2

\* C22 (as claimed): whenever the FileInfo comes from the primary path it
\* carries a name: a primary answer without a name fails over to the page.
C22_PrimaryFailsOver ==
  (IsSome(loc.fileInfo) /\ loc.metaPath = "api") => IsSome(Get(loc.fileInfo).name)

\* The promise of streamToBuffer has been resolved or rejected.
DrainSettled == drain.promise \in {"resolved", "rejected"}

\* A step taken after the settlement leaves the promise and the result alone.
DrainSettledStep ==
  DrainSettled =>
    /\ drain'.promise = drain.promise /\ drain'.buffer = drain.buffer
    /\ drain'.reason = drain.reason
    /\ result' = result /\ pc' = pc

\* The settlement is the one of the first event: 'end' with all the bytes,
\* 'error', the overflow, or the timer; the call ends with it.
DrainFirstEvent ==
  drain.active =>
    /\ (drain.promise = "pending") <=> (pc = "drain")
    /\ drain.promise = "resolved" =>
         /\ drain.stream = "ended" /\ drain.totalSize <= MaxBufferSize
         /\ drain.buffer = Some(Flatten(drain.chunks))
         /\ Len(Get(drain.buffer)) = drain.totalSize
         /\ \/ Succeeded /\ Get(Get(result.value).file).buffer = drain.buffer
            \/ Failed /\ Get(loc.adj).name = None
    /\ drain.promise = "rejected" =>
         /\ drain.buffer = None
         /\ drain.reason \in {Some(ErrStream), Some(ErrTooLarge), Some(ErrDrainTimeout)}
         /\ drain.reason = Some(ErrStream) =>
              drain.stream = "errored" /\ drain.totalSize <= MaxBufferSize
         /\ drain.reason = Some(ErrTooLarge) =>
              drain.stream \in {"destroyed", "ended"} /\ drain.totalSize > MaxBufferSize
         /\ drain.reason = Some(ErrDrainTimeout) =>
              /\ drain.timer = "fired" /\ drain.stream \in {"destroyed", "ended"}
              /\ drain.totalSize <= MaxBufferSize
         /\ Failed
         /\ Get(result.value).error =
              Some(IF loc.large THEN << "Large file download error: " >> \o Get(drain.reason)
                                ELSE Get(drain.reason))

\* C23: the promise of the drain is settled once, by the first of 'end',
\* 'error', the overflow and the timer; no later event (the timer after a
\* successful drain included) changes it or the result of the call; and, the
\* timer being certain to fire, a call that has entered the drain ends even
\* when the body never emits anything.
C23_DrainSettlesOnce ==
  /\ [][DrainSettledStep]_vars
  /\ []DrainFirstEvent
  /\ (pc = "drain") ~> (pc = "done")

\* The timer has fired after a drain that had succeeded.
C23_Witness ==
  /\ drain.promise = "resolved" /\ drain.timer = "fired"
  /\ Succeeded /\ Get(Get(result.value).file).buffer = Some(BytesPDF)

RequestsTo(url) == { k \in 1..Len(requests) : requests[k].url = url }

\* C25: with maxRetries >= 0, getFileInfo is called once (one request of the
\* metadata API, at most one of the view page) and retryWithBackoff never
\* sleeps, whatever the metadata endpoints and the candidates answer.
C25_MetadataOnce ==
  loc.maxRetries >= 0 =>
    /\ loc.attempt = 0 /\ loc.delays = << >>
    /\ loc.fileId = None => requests = << >>
    /\ IsSome(loc.fileId) =>
         /\ Cardinality(RequestsTo(MetadataUrl(Get(loc.fileId)))) = 1
         /\ Cardinality(RequestsTo(ViewUrl(Get(loc.fileId)))) <= 1
         /\ requests[1].url = MetadataUrl(Get(loc.fileId))

\* Both metadata endpoints failed and a candidate raised, with maxRetries 0.
C25_Witness ==
  /\ pc = "done" /\ loc.maxRetries = 0 /\ call.options.maxRetries = Some(0)
  /\ loc.metaPath = "pageFailed" /\ loc.netThrew /\ IsSome(loc.lastError)
  /\ loc.delays = << >> /\ Len(requests) > 2

\* C26 (as claimed): a Success whose name was rewritten to the export format
\* had the export URL of that format among its candidates.
C26_AdjustmentHasExportUrl ==
  (/\ Succeeded /\ loc.exportFormat # StrOriginal
   /\ Truthy(Get(loc.fileInfo).mimeType)
   /\ Get(Get(loc.fileInfo).mimeType) \in googleDocMimeTypes) =>
    \E j \in 1..Len(loc.downloadUrls) :
      /\ IsExportUrl(loc.downloadUrls[j])
      /\ loc.downloadUrls[j][6] = loc.exportFormat

\* The requests of the call stay within 2 for the metadata, one per candidate
\* (at most 7) and 2 for the confirmation flow, entered after the last
\* candidate only; the loop never runs past its last index, and it is left
\* with a response that is not HTML, for the confirmation flow, or with the
\* error of the last candidate.
RequestsBounded ==
  /\ loc.base <= 2
  /\ pc \in {"awaitMetadata", "awaitPage"} => Len(requests) <= 2
  /\ Failed => Get(result.value).error # Some(ErrAllFailed)
  /\ IsSome(loc.fileInfo) =>
       /\ Len(loc.downloadUrls) <= 7
       /\ loc.i < Len(loc.downloadUrls)
       /\ ~loc.large => Len(requests) = loc.base + loc.i + 1
       /\ loc.large =>
            /\ loc.i = Len(loc.downloadUrls) - 1
            /\ Len(requests) - (loc.base + Len(loc.downloadUrls)) \in {1, 2}
       /\ Len(requests) <= 11
       /\ pc \in {"drain", "done"} =>
            \/ loc.large
            \/ /\ IsSome(loc.response) /\ ~IsHtml(Get(loc.response))
               /\ Get(loc.response).req = Len(requests)
            \/ /\ loc.i = Len(loc.downloadUrls) - 1
               /\ loc.lastError = Some(NetError(Len(requests)))
               /\ loc.escaped = Some(loc.lastError)

\* C27: when every network operation returns or fails, every call of download
\* ends, after a bounded number of requests, and never through the "All
\* download attempts failed" fallthrough after the loop.
C27_TerminatesBounded ==
  /\ []RequestsBounded
  /\ <>(pc = "done")

\* A call that used the metadata API, seven candidates and both requests of
\* the confirmation flow.
C27_Witness ==
  /\ pc = "done" /\ loc.large /\ Len(loc.downloadUrls) = 7
  /\ Len(requests) = 10 /\ IsSome(loc.largeResponse)

(***************************************************************************)
(* extractFileId on sharing URLs                                           *)
(***************************************************************************)
\* Identifiers embedded in the URLs: "1aB-_9", "Zz0".
ExtractIds == { <<"1","a","B","-","_","9">>, <<"Z","z","0">> }

\* The supported URL shapes: the text before the identifier and the texts that
\* may follow it (path end, query parameters, fragment).
UrlShapes ==
  {
    \* https://drive.google.com/file/d/<id>  followed by one of: '', '/view', '/view?usp=sharing', '/edit', '/preview#x'
    [prefix |-> <<"h","t","t","p","s",":","/","/","d","r","i","v","e",".","g","o","o","g","l","e",".","c","o","m","/","f","i","l","e","/","d","/">>,
     tails |-> { <<>>,
                <<"/","v","i","e","w">>,
                <<"/","v","i","e","w","?","u","s","p","=","s","h","a","r","i","n","g">>,
                <<"/","e","d","i","t">>,
                <<"/","p","r","e","v","i","e","w","#","x">> }],
    \* https://drive.google.com/open?id=<id>  followed by one of: '', '&authuser=0', '#x'
    [prefix |-> <<"h","t","t","p","s",":","/","/","d","r","i","v","e",".","g","o","o","g","l","e",".","c","o","m","/","o","p","e","n","?","i","d","=">>,
     tails |-> { <<>>,
                <<"&","a","u","t","h","u","s","e","r","=","0">>,
                <<"#","x">> }],
    \* https://drive.google.com/uc?export=download&id=<id>  followed by one of: '', '&authuser=0', '#x'
    [prefix |-> <<"h","t","t","p","s",":","/","/","d","r","i","v","e",".","g","o","o","g","l","e",".","c","o","m","/","u","c","?","e","x","p","o","r","t","=","d","o","w","n","l","o","a","d","&","i","d","=">>,
     tails |-> { <<>>,
                <<"&","a","u","t","h","u","s","e","r","=","0">>,
                <<"#","x">> }],
    \* https://drive.google.com/d/<id>  followed by one of: '/view', '/view?usp=sharing', '/edit', '/edit#gid=0', '/edit?usp=sharing&ouid=7'
    [prefix |-> <<"h","t","t","p","s",":","/","/","d","r","i","v","e",".","g","o","o","g","l","e",".","c","o","m","/","d","/">>,
     tails |-> { <<"/","v","i","e","w">>,
                <<"/","v","i","e","w","?","u","s","p","=","s","h","a","r","i","n","g">>,
                <<"/","e","d","i","t">>,
                <<"/","e","d","i","t","#","g","i","d","=","0">>,
                <<"/","e","d","i","t","?","u","s","p","=","s","h","a","r","i","n","g","&","o","u","i","d","=","7">> }],
    \* https://docs.google.com/document/d/<id>  followed by one of: '', '/edit', '/edit?usp=sharing', '/edit#gid=0', '/view', '/edit?usp=sharing&ouid=7'
    [prefix |-> <<"h","t","t","p","s",":","/","/","d","o","c","s",".","g","o","o","g","l","e",".","c","o","m","/","d","o","c","u","m","e","n","t","/","d","/">>,
     tails |-> { <<>>,
                <<"/","e","d","i","t">>,
                <<"/","e","d","i","t","?","u","s","p","=","s","h","a","r","i","n","g">>,
                <<"/","e","d","i","t","#","g","i","d","=","0">>,
                <<"/","v","i","e","w">>,
                <<"/","e","d","i","t","?","u","s","p","=","s","h","a","r","i","n","g","&","o","u","i","d","=","7">> }],
    \* https://docs.google.com/spreadsheets/d/<id>  followed by one of: '', '/edit', '/edit?usp=sharing', '/edit#gid=0', '/view', '/edit?usp=sharing&ouid=7'
    [prefix |-> <<"h","t","t","p","s",":","/","/","d","o","c","s",".","g","o","o","g","l","e",".","c","o","m","/","s","p","r","e","a","d","s","h","e","e","t","s","/","d","/">>,
     tails |-> { <<>>,
                <<"/","e","d","i","t">>,
                <<"/","e","d","i","t","?","u","s","p","=","s","h","a","r","i","n","g">>,
                <<"/","e","d","i","t","#","g","i","d","=","0">>,
                <<"/","v","i","e","w">>,
                <<"/","e","d","i","t","?","u","s","p","=","s","h","a","r","i","n","g","&","o","u","i","d","=","7">> }],
    \* https://docs.google.com/presentation/d/<id>  followed by one of: '', '/edit', '/edit?usp=sharing', '/edit#gid=0', '/view', '/edit?usp=sharing&ouid=7'
    [prefix |-> <<"h","t","t","p","s",":","/","/","d","o","c","s",".","g","o","o","g","l","e",".","c","o","m","/","p","r","e","s","e","n","t","a","t","i","o","n","/","d","/">>,
     tails |-> { <<>>,
                <<"/","e","d","i","t">>,
                <<"/","e","d","i","t","?","u","s","p","=","s","h","a","r","i","n","g">>,
                <<"/","e","d","i","t","#","g","i","d","=","0">>,
                <<"/","v","i","e","w">>,
                <<"/","e","d","i","t","?","u","s","p","=","s","h","a","r","i","n","g","&","o","u","i","d","=","7">> }],
    \* https://docs.google.com/forms/d/<id>  followed by one of: '', '/edit', '/edit?usp=sharing', '/edit#gid=0', '/view', '/edit?usp=sharing&ouid=7'
    [prefix |-> <<"h","t","t","p","s",":","/","/","d","o","c","s",".","g","o","o","g","l","e",".","c","o","m","/","f","o","r","m","s","/","d","/">>,
     tails |-> { <<>>,
                <<"/","e","d","i","t">>,
                <<"/","e","d","i","t","?","u","s","p","=","s","h","a","r","i","n","g">>,
                <<"/","e","d","i","t","#","g","i","d","=","0">>,
                <<"/","v","i","e","w">>,
                <<"/","e","d","i","t","?","u","s","p","=","s","h","a","r","i","n","g","&","o","u","i","d","=","7">> }],
    \* https://docs.google.com/drawings/d/<id>  followed by one of: '', '/edit', '/edit?usp=sharing', '/edit#gid=0', '/view', '/edit?usp=sharing&ouid=7'
    [prefix |-> <<"h","t","t","p","s",":","/","/","d","o","c","s",".","g","o","o","g","l","e",".","c","o","m","/","d","r","a","w","i","n","g","s","/","d","/">>,
     tails |-> { <<>>,
                <<"/","e","d","i","t">>,
                <<"/","e","d","i","t","?","u","s","p","=","s","h","a","r","i","n","g">>,
                <<"/","e","d","i","t","#","g","i","d","=","0">>,
                <<"/","v","i","e","w">>,
                <<"/","e","d","i","t","?","u","s","p","=","s","h","a","r","i","n","g","&","o","u","i","d","=","7">> }] }

\* Arguments of extractFileId: every supported shape around every identifier,
\* and the malformed ones ('', a non-string, blanks, a URL of another site).
ExtractInputs ==
  { [kind |-> "supported", embedded |-> id,
     url |-> [isString |-> TRUE, chars |-> sh.prefix \o id \o t]]
      : <<sh, id, t>> \in { x \in UrlShapes \X ExtractIds \X UNION { y.tails : y \in UrlShapes }
                              : x[3] \in x[1].tails } }
  \cup { [kind |-> "invalid", embedded |-> << >>, url |-> [isString |-> TRUE, chars |-> << >>]],
         [kind |-> "invalid", embedded |-> << >>, url |-> [isString |-> FALSE, chars |-> << >>]],
         [kind |-> "unrecognised", embedded |-> << >>, url |-> [isString |-> TRUE, chars |-> <<" "," ">>]],
         [kind |-> "unrecognised", embedded |-> << >>,
          url |-> [isString |-> TRUE, chars |-> <<"h","t","t","p","s",":","/","/","e","x","a","m","p","l","e",".","c","o","m","/","f","i","l","e">>]] }

InitExtract ==
  /\ hUrls = HUrlsIdle /\ hRetry = HRetryIdle /\ hSave = HSaveIdle /\ hPair = HPairIdle
  /\ DownloadIdle
  /\ hExtract \in { [pc |-> "call", kind |-> x.kind, embedded |-> x.embedded, url |-> x.url,
                     outcome |-> Throw(<< >>)] : x \in ExtractInputs }

CallExtractFileId ==
  /\ hExtract.pc = "call"
  /\ hExtract' = [hExtract EXCEPT !.pc = "returned", !.outcome = extractFileId(hExtract.url)]
  /\ UNCHANGED <<hUrls, hRetry, hSave, hPair, dvars>>

NextExtract == CallExtractFileId

SpecExtract == InitExtract /\ [][NextExtract]_vars

\* C12 (as claimed): extractFileId returns the identifier embedded in the URL
\* for every supported shape, with or without further query or fragment
\* parameters; it fails with the invalid-input error for an empty or
\* non-string URL and with the not-found error when no pattern matches.
C12_ExtractsEmbeddedId ==
  hExtract.pc = "returned" =>
    CASE hExtract.kind = "supported" ->
           hExtract.outcome = [threw |-> FALSE, value |-> Some(hExtract.embedded), error |-> None]
      [] hExtract.kind = "invalid" ->
           hExtract.outcome = [threw |-> TRUE, value |-> None,
                               error |-> Some(<< "Invalid URL provided" >>)]
      [] hExtract.kind = "unrecognised" ->
           /\ hExtract.outcome.threw
           /\ hExtract.outcome.error = Some(ErrIdNotFound)

(***************************************************************************)
(* Two download calls on one GoogleDriveDownloader                         *)
(* Each call keeps its state in its own activation: the locals of download *)
(* and the closure of streamToBuffer.  The instance holds two readonly     *)
(* fields.  The calls are suspended at their awaits and events of both are *)
(* delivered in any order.                                                 *)
(***************************************************************************)
\* The state of a call that has not started.
Frame0 == [pc |-> "call", loc |-> LocInit, requests |-> << >>, drain |-> DrainIdle,
           result |-> ResultPending]

\* The fields of the instance: userAgent and googleDocMimeTypes.
ThisFields == [userAgent |-> "CONFIG.userAgent", googleDocMimeTypes |-> googleDocMimeTypes]

\* One cell of the instance used by every call for its state.
FrameCellOnInstance(k) == 1

\* Where call k keeps its state: in the activation of that call.
FrameCell(k) == k

Frame(k) == hPair.heap[FrameCell(k)]

\* "https://drive.google.com/file/d/ss/view", "https://drive.google.com/open?id=Zz0"
PairUrlA == [isString |-> TRUE, chars |-> <<"h","t","t","p","s",":","/","/","d","r","i","v","e",".","g","o","o","g","l","e",".","c","o","m","/","f","i","l","e","/","d","/","s","s","/","v","i","e","w">>]
PairUrlB == [isString |-> TRUE, chars |-> <<"h","t","t","p","s",":","/","/","d","r","i","v","e",".","g","o","o","g","l","e",".","c","o","m","/","o","p","e","n","?","i","d","=","Z","z","0">>]

NoOptions == [asBuffer |-> None, exportFormat |-> None, maxRetries |-> None, timeout |-> None]

\* The two calls: downloadAsBuffer(urlA), and download(urlB) or
\* downloadAsStream(urlB, { exportFormat: 'pdf' }).
PairFirstCalls == { [entry |-> "downloadAsBuffer", url |-> PairUrlA, options |-> NoOptions] }
PairSecondCalls ==
  { [entry |-> "download", url |-> PairUrlB, options |-> NoOptions],
    [entry |-> "downloadAsStream", url |-> PairUrlB,
     options |-> [NoOptions EXCEPT !.exportFormat = Some(StrPdf)]] }

\* The outcomes of the network drawn for the pair.
PairApiOutcomes == { o \in ApiOutcomes : o.kind = "throw" }
PairPageOutcomes == { o \in PageOutcomes : o.kind = "throw" }
PairCandidateOutcomes == { o \in CandidateOutcomes : o.kind = "response" /\ o.contentLength = None }
PairConfirmOutcomes == { o \in ConfirmOutcomes : o.kind = "html" }
PairConfirmedOutcomes == { o \in CandidateOutcomes : o.contentLength = None /\ o.contentType = None }

InitPair ==
  /\ hUrls = HUrlsIdle /\ hRetry = HRetryIdle /\ hExtract = HExtractIdle /\ hSave = HSaveIdle
  /\ DownloadIdle
  /\ hPair \in [pc : {"running"}, this : {ThisFields},
                calls : { <<a, b>> : a \in PairFirstCalls, b \in PairSecondCalls },
                heap : { <<Frame0, Frame0>> }]

\* The handler of call k has run to its next suspension and left st2.
Store(k, st2) ==
  /\ hPair' = [hPair EXCEPT !.heap[FrameCell(k)] = st2]
  /\ UNCHANGED <<hUrls, hRetry, hExtract, hSave, dvars>>

PairDownloadCall ==
  \E k \in 1..2 : Frame(k).pc = "call" /\ Store(k, OnDownloadCall(hPair.calls[k], Frame(k)))

PairMetadataSettles ==
  \E k \in 1..2 : /\ Frame(k).pc = "awaitMetadata"
                  /\ \E o \in PairApiOutcomes : Store(k, OnMetadata(Frame(k), o))

PairPageSettles ==
  \E k \in 1..2 : /\ Frame(k).pc = "awaitPage"
                  /\ \E o \in PairPageOutcomes : Store(k, OnPage(Frame(k), o))

PairCandidateSettles ==
  \E k \in 1..2 : /\ Frame(k).pc = "awaitCandidate"
                  /\ \E o \in PairCandidateOutcomes : Store(k, OnCandidate(Frame(k), o))

PairConfirmSettles ==
  \E k \in 1..2 : /\ Frame(k).pc = "awaitConfirm"
                  /\ \E o \in PairConfirmOutcomes : Store(k, OnConfirm(Frame(k), o))

PairConfirmedSettles ==
  \E k \in 1..2 : /\ Frame(k).pc = "awaitConfirmed"
                  /\ \E o \in PairConfirmedOutcomes : Store(k, OnConfirmed(Frame(k), o))

PairStreamData ==
  \E k \in 1..2 : /\ CanData(Frame(k))
                  /\ \E chunk \in Chunks : Store(k, OnData(Frame(k), chunk))

PairStreamEnd == \E k \in 1..2 : CanEnd(Frame(k)) /\ Store(k, OnEnd(Frame(k)))

PairStreamError == \E k \in 1..2 : CanStreamError(Frame(k)) /\ Store(k, OnStreamError(Frame(k)))

PairDrainTimerFires == \E k \in 1..2 : CanDrainTimer(Frame(k)) /\ Store(k, OnDrainTimer(Frame(k)))

NextPair ==
  \/ PairDownloadCall
  \/ PairMetadataSettles
  \/ PairPageSettles
  \/ PairCandidateSettles
  \/ PairConfirmSettles
  \/ PairConfirmedSettles
  \/ PairStreamData
  \/ PairStreamEnd
  \/ PairStreamError
  \/ PairDrainTimerFires

SpecPair == InitPair /\ [][NextPair]_vars

\* st2 is what call c, running alone in state st, is left in by one of its
\* events, for some outcome of the network.
SoloStep(c, st, st2) ==
  \/ st.pc = "call" /\ st2 = OnDownloadCall(c, st)
  \/ st.pc = "awaitMetadata" /\ \E o \in ApiOutcomes : st2 = OnMetadata(st, o)
  \/ st.pc = "awaitPage" /\ \E o \in PageOutcomes : st2 = OnPage(st, o)
  \/ st.pc = "awaitCandidate" /\ \E o \in CandidateOutcomes : st2 = OnCandidate(st, o)
  \/ st.pc = "awaitConfirm" /\ \E o \in ConfirmOutcomes : st2 = OnConfirm(st, o)
  \/ st.pc = "awaitConfirmed" /\ \E o \in CandidateOutcomes : st2 = OnConfirmed(st, o)
  \/ CanData(st) /\ \E chunk \in Chunks : st2 = OnData(st, chunk)
  \/ CanEnd(st) /\ st2 = OnEnd(st)
  \/ CanStreamError(st) /\ st2 = OnStreamError(st)
  \/ CanDrainTimer(st) /\ st2 = OnDrainTimer(st)

\* C13: with two calls interleaved at their suspension points, every change of
\* the state of a call (options, candidate list, requests, accumulated chunks,
\* result) is a step that call takes when it runs alone from the same state
\* with the same network outcome; a step of the other call leaves it unchanged;
\* the fields of the instance and the arguments of the calls never change.
C13_NoInterference ==
  [][ /\ hPair'.this = hPair.this /\ hPair'.calls = hPair.calls
      /\ \A k \in 1..2 :
           \/ hPair'.heap[k] = hPair.heap[k]
           \/ SoloStep(hPair.calls[k], hPair.heap[k], hPair'.heap[k])
      /\ \E k \in 1..2 : hPair'.heap[3 - k] = hPair.heap[3 - k] ]_vars

\* Both calls are draining their bodies at once and have received different
\* chunks; each call's requests carry its own identifier.
C13_Witness ==
  /\ hPair.pc = "running"
  /\ hPair.heap[1].pc = "drain" /\ hPair.heap[2].pc = "drain"
  /\ hPair.heap[1].drain.chunks = << BytesPDF >>
  /\ hPair.heap[2].drain.chunks = << <<80, 75>>, <<80, 75>> >>
  /\ hPair.heap[1].requests[1].url = MetadataUrl(<<"s","s">>)
  /\ hPair.heap[2].requests[1].url = MetadataUrl(<<"Z","z","0">>)

(***************************************************************************)
(* saveToFile                                                              *)
(***************************************************************************)
\* Largest number of chunks the source stream emits before it ends.
MaxSaveChunks == 3

ErrDownloadFailed == << "Download failed" >>
ErrNeither == << "File contains neither buffer nor stream" >>
ErrWrite == << "write error" >>

\* The downloadResult argument: a Failure with or without a message, a Success
\* without file, and a Success whose file has a buffer, a stream, both or none.
SaveResults ==
  { [success |-> FALSE, error |-> Some(ErrTooLarge), file |-> None],
    [success |-> FALSE, error |-> None, file |-> None],
    [success |-> TRUE, error |-> None, file |-> None],
    [success |-> TRUE, error |-> None, file |-> Some([buffer |-> TRUE, stream |-> FALSE])],
    [success |-> TRUE, error |-> None, file |-> Some([buffer |-> FALSE, stream |-> TRUE])],
    [success |-> TRUE, error |-> None, file |-> Some([buffer |-> TRUE, stream |-> TRUE])],
    [success |-> TRUE, error |-> None, file |-> Some([buffer |-> FALSE, stream |-> FALSE])] }

\* The argument, the file system (does the directory exist, does a synchronous
\* call fail), the source stream, the pipe, the write stream and the promise.
InitSave ==
  /\ hUrls = HUrlsIdle /\ hRetry = HRetryIdle /\ hExtract = HExtractIdle /\ hPair = HPairIdle
  /\ DownloadIdle
  /\ hSave \in [pc : {"call"}, result : SaveResults, dirExists : BOOLEAN, fsFails : BOOLEAN,
                src : {"none"}, piped : {FALSE}, emitted : {0}, written : {0},
                ws : {"none"}, promise : {"pending"}, reason : {None}]

\* An async function that throws: its promise rejects.
SaveReject(h, e) == [h EXCEPT !.pc = "done", !.promise = "rejected", !.reason = Some(e)]

\* saveToFile up to its return: the checks, mkdirSync, then writeFileSync or
\* createWriteStream + pipe + the promise on 'finish' / 'error'.
SaveCall ==
  /\ hSave.pc = "call"
  /\ UNCHANGED <<hUrls, hRetry, hExtract, hPair, dvars>>
  /\ hSave' =
       LET r == hSave.result IN
       IF ~r.success \/ r.file = None
         THEN SaveReject(hSave, IF Truthy(r.error) THEN Get(r.error) ELSE ErrDownloadFailed)
       ELSE IF ~hSave.dirExists /\ hSave.fsFails
         THEN SaveReject(hSave, ErrWrite)
       ELSE LET h == [hSave EXCEPT !.dirExists = TRUE] IN
         IF Get(r.file).buffer
           THEN IF h.fsFails THEN SaveReject(h, ErrWrite)
                ELSE [h EXCEPT !.pc = "done", !.promise = "resolved"]
         ELSE IF Get(r.file).stream
           THEN [h EXCEPT !.pc = "piping", !.src = "flowing", !.piped = TRUE, !.ws = "open"]
         ELSE SaveReject(h, ErrNeither)

\* The source emits 'data': pipe writes the chunk to the write stream.
SaveSrcData ==
  /\ hSave.pc = "piping" /\ hSave.src = "flowing" /\ hSave.emitted < MaxSaveChunks
  /\ UNCHANGED <<hUrls, hRetry, hExtract, hPair, dvars>>
  /\ hSave' = [hSave EXCEPT !.emitted = @ + 1,
                            !.written = IF hSave.piped /\ hSave.ws = "open" THEN @ + 1 ELSE @]

\* The source emits 'end': pipe calls end() on the write stream.
SaveSrcEnd ==
  /\ hSave.pc = "piping" /\ hSave.src = "flowing"
  /\ UNCHANGED <<hUrls, hRetry, hExtract, hPair, dvars>>
  /\ hSave' = [hSave EXCEPT !.src = "ended",
                            !.ws = IF hSave.piped /\ @ = "open" THEN "ending" ELSE @]

\* The source emits 'error' (the connection breaks): pipe has no handler for
\* it, and the write stream is neither ended nor destroyed.
SaveSrcError ==
  /\ hSave.pc = "piping" /\ hSave.src = "flowing"
  /\ UNCHANGED <<hUrls, hRetry, hExtract, hPair, dvars>>
  /\ hSave' = [hSave EXCEPT !.src = "errored"]

\* The source is destroyed and emits 'close' without 'end'.
SaveSrcDestroyed ==
  /\ hSave.pc = "piping" /\ hSave.src = "flowing"
  /\ UNCHANGED <<hUrls, hRetry, hExtract, hPair, dvars>>
  /\ hSave' = [hSave EXCEPT !.src = "destroyed"]

\* writeStream.on('finish', resolve)
SaveWriteFinish ==
  /\ hSave.pc = "piping" /\ hSave.ws = "ending"
  /\ UNCHANGED <<hUrls, hRetry, hExtract, hPair, dvars>>
  /\ hSave' = [hSave EXCEPT !.pc = "done", !.ws = "finished", !.promise = "resolved"]

\* writeStream.on('error', reject): the write stream unpipes the source.
SaveWriteError ==
  /\ hSave.pc = "piping" /\ hSave.ws \in {"open", "ending"}
  /\ UNCHANGED <<hUrls, hRetry, hExtract, hPair, dvars>>
  /\ hSave' = [hSave EXCEPT !.pc = "done", !.ws = "errored", !.piped = FALSE,
                            !.promise = "rejected", !.reason = Some(ErrWrite)]

NextSave ==
  \/ SaveCall
  \/ SaveSrcData
  \/ SaveSrcEnd
  \/ SaveSrcError
  \/ SaveSrcDestroyed
  \/ SaveWriteFinish
  \/ SaveWriteError

\* The call runs; the source stream does not stay open forever; a write
\* stream that was ended flushes.  A write error may or may not happen.
SpecSave ==
  /\ InitSave /\ [][NextSave]_vars
  /\ WF_vars(SaveCall)
  /\ WF_vars(SaveSrcEnd \/ SaveSrcError \/ SaveSrcDestroyed)
  /\ WF_vars(SaveWriteFinish)

\* C14 (as claimed): saveToFile on a Success carrying a stream (and no buffer)
\* eventually settles, whatever the source stream and the file write do.
C14_SaveSettles ==
  (hSave.pc = "piping") ~> (hSave.promise # "pending")

====
